---- MODULE Spec2Model ----
(***************************************************************************)
(* Wildlife movement analytics: the track preprocessor of                  *)
(* components/analysis.py and the activity and data-quality callbacks of   *)
(* app.py, as operators over data frames.                                  *)
(*                                                                         *)
(* A data frame is [columns |-> set of column names, rows |-> sequence of  *)
(* rows], a row being a function from the frame's column names to values.  *)
(* Timestamps are whole minutes since an epoch midnight; latitudes are     *)
(* whole degrees on one meridian (longitude 0), where the haversine        *)
(* distance is the Earth radius times the latitude difference in radians.  *)
(* A float is [k, n, d]: a rational n/d, an infinity or NaN.               *)
(*                                                                         *)
(* A function of the program is an operator giving the SET of its possible *)
(* outcomes: pandas' sort_values uses an unstable sort, so rows with equal *)
(* timestamps may come out in any order. An outcome is                     *)
(*   [raised, err, ret, arg]                                               *)
(* raised: an exception left the function (err names it); ret: the value   *)
(* returned; arg: the caller's frame as the call leaves it (the functions  *)
(* that assign columns to the frame they were handed change it).           *)
(***************************************************************************)
EXTENDS Integers, Sequences, FiniteSets, TLC

VARIABLES df, call, result

vars == <<df, call, result>>

\* ------------------------------------------------------------------ bounds
\* Longest frame the model feeds to a function.
MaxRows == 3
\* Longest frame fed to calculate_fix_success when it infers the interval
\* (two individuals of two fixes each are the least that shows the loop).
MaxFixRows == 4

\* ------------------------------------------------------------ float values
NaN == [k |-> "nan", n |-> 0, d |-> 1]
Inf == [k |-> "inf", n |-> 1, d |-> 1]
NegInf == [k |-> "inf", n |-> -1, d |-> 1]

Abs(x) == IF x < 0 THEN -x ELSE x
Sgn(x) == IF x < 0 THEN -1 ELSE IF x > 0 THEN 1 ELSE 0

RECURSIVE Gcd(_, _)
Gcd(a, b) == IF b = 0 THEN a ELSE Gcd(b, a % b)

\* The rational n/d (d > 0) in lowest terms.
Fin(n, d) ==
    LET g == Gcd(Abs(n), d)
    IN  [k |-> "fin", n |-> n \div g, d |-> d \div g]

Num(i) == Fin(i, 1)

IsNaN(x) == x.k = "nan"
IsFinite(x) == x.k = "fin"

\* IEEE division as numpy performs it: x/0 is an infinity, 0/0 is NaN.
FDiv(a, b) ==
    IF IsNaN(a) \/ IsNaN(b) THEN NaN
    ELSE IF b.k = "inf" THEN (IF a.k = "inf" THEN NaN ELSE Num(0))
    ELSE IF a.k = "inf" THEN (IF a.n * Sgn(b.n) < 0 THEN NegInf ELSE Inf)
    ELSE IF b.n = 0 THEN
        (IF a.n = 0 THEN NaN ELSE IF a.n > 0 THEN Inf ELSE NegInf)
    ELSE Fin(Sgn(b.n) * a.n * b.d, a.d * Abs(b.n))

FMul(a, b) ==
    IF IsNaN(a) \/ IsNaN(b) THEN NaN
    ELSE IF a.k = "inf" \/ b.k = "inf" THEN
        (IF a.n = 0 \/ b.n = 0 THEN NaN
         ELSE IF Sgn(a.n) * Sgn(b.n) < 0 THEN NegInf ELSE Inf)
    ELSE Fin(a.n * b.n, a.d * b.d)

\* a < b; every comparison with NaN is false.
FLt(a, b) ==
    IF IsNaN(a) \/ IsNaN(b) THEN FALSE
    ELSE IF a.k = "inf" THEN a.n < 0 /\ ~(b.k = "inf" /\ b.n < 0)
    ELSE IF b.k = "inf" THEN b.n > 0
    ELSE a.n * b.d < b.n * a.d

FGt(a, b) == FLt(b, a)
FLe(a, b) == ~IsNaN(a) /\ ~IsNaN(b) /\ ~FLt(b, a)

\* Python's min(a, b): b when b < a, else a.
PyMin(a, b) == IF FLt(b, a) THEN b ELSE a

\* ------------------------------------------------------------- data frames
Frame(cols, rows) == [columns |-> cols, rows |-> rows]

\* DataFrame.empty: no rows (every frame of the model has a column).
Empty(f) == Len(f.rows) = 0

\* row with column c set to v
RowWith(row, c, v) ==
    [x \in (DOMAIN row) \cup {c} |-> IF x = c THEN v ELSE row[x]]

\* df[c] = vals: column c added or overwritten, row by row.
WithColumn(f, c, vals) ==
    Frame(f.columns \cup {c},
          [i \in 1..Len(f.rows) |-> RowWith(f.rows[i], c, vals[i])])

\* The injective maps of 1..n onto itself.
Perms(n) == {p \in [1..n -> 1..n] : \A i, j \in 1..n : p[i] = p[j] => i = j}

\* df.sort_values(by): every arrangement of the rows that is non-decreasing
\* in column by (the default quicksort is not stable).
sort_values(f, by) ==
    LET n == Len(f.rows)
    IN  { Frame(f.columns, [i \in 1..n |-> f.rows[p[i]]]) :
            p \in { q \in Perms(n) :
                      \A i \in 1..(n - 1) :
                          f.rows[q[i]][by] <= f.rows[q[i + 1]][by] } }

\* The integers of S in ascending order.
RECURSIVE AscSeq(_)
AscSeq(S) ==
    IF S = {} THEN <<>>
    ELSE LET m == CHOOSE x \in S : \A y \in S : x <= y
         IN  <<m>> \o AscSeq(S \ {m})

\* df[df[c] == v]: the rows whose column c holds v, in their order.
RowsWhere(rows, c, v) ==
    LET at == AscSeq({i \in 1..Len(rows) : rows[i][c] = v})
    IN  [j \in 1..Len(at) |-> rows[at[j]]]

\* Series.sum() over a column of integers.
RECURSIVE SumCol(_, _, _)
SumCol(rows, c, i) ==
    IF i > Len(rows) THEN 0 ELSE rows[i][c] + SumCol(rows, c, i + 1)

\* sum of a sequence of integers
RECURSIVE SumSeq(_, _)
SumSeq(vals, i) == IF i > Len(vals) THEN 0 ELSE vals[i] + SumSeq(vals, i + 1)

Ok(ret, arg) == [raised |-> FALSE, err |-> "", ret |-> ret, arg |-> arg]
Raise(err, ret, arg) == [raised |-> TRUE, err |-> err, ret |-> ret, arg |-> arg]

\* ------------------------------------------------- components/analysis.py
\* Column names of components/analysis.py.
LAT == "location-lat"
LONG == "location-long"
TS == "timestamp"
IND == "individual-local-identifier"

EARTH_RADIUS == 6371000

\* Metres along a meridian per degree of latitude: EARTH_RADIUS * pi / 180.
DegreeMetres == ((EARTH_RADIUS \div 1000) * 31416) \div 1800

\* haversine_distance in metres, for two points of one meridian
\* (lon1 = lon2): a = sin(dlat/2)^2, c = |dlat| in radians.
haversine_distance(lat1, lon1, lat2, lon2) == DegreeMetres * Abs(lat2 - lat1)

\* The identifiers in the order Python compares them.
IdSeq == <<"a", "b">>
IdRank(id) == CHOOSE i \in 1..Len(IdSeq) : IdSeq[i] = id

MinutesPerDay == 24 * 60
\* pd.to_datetime(t).dt.date, as the day number
DateOf(t) == t \div MinutesPerDay
\* pd.to_datetime(t).dt.hour
HourOf(t) == (t % MinutesPerDay) \div 60

\* The values of the pairs [rank, val] of P as a sequence, ascending in
\* rank (ranks are distinct).
SortedSeq(P) ==
    LET asc == AscSeq({p.rank : p \in P})
    IN  [j \in 1..Len(asc) |-> (CHOOSE p \in P : p.rank = asc[j]).val]

\* The list of step distances of a sorted frame: 0, then the distance of
\* each row to the row before it.
StepDistances(f) ==
    [i \in 1..Len(f.rows) |->
        IF i = 1 THEN 0
        ELSE haversine_distance(f.rows[i - 1][LAT], f.rows[i - 1][LONG],
                                f.rows[i][LAT], f.rows[i][LONG])]

NoFrame == Frame({}, <<>>)

\* calculate_distances ordering the rows on the longitude
calculate_distances_ByLong(f) ==
    IF Empty(f) \/ Len(f.rows) < 2 THEN {Ok(f, f)}
    ELSE IF TS \notin f.columns THEN {Raise("KeyError", NoFrame, f)}
    ELSE IF LAT \notin f.columns \/ LONG \notin f.columns
         THEN {Raise("KeyError", NoFrame, f)}
    ELSE { Ok(WithColumn(s, "distance_to_prev", StepDistances(s)), f) :
             s \in sort_values(f, LONG) }

calculate_distances(f) ==
    IF Empty(f) \/ Len(f.rows) < 2 THEN {Ok(f, f)}
    ELSE IF TS \notin f.columns THEN {Raise("KeyError", NoFrame, f)}
    ELSE IF LAT \notin f.columns \/ LONG \notin f.columns
         THEN {Raise("KeyError", NoFrame, f)}
    ELSE { Ok(WithColumn(s, "distance_to_prev", StepDistances(s)), f) :
             s \in sort_values(f, TS) }

\* groupby(keys)['distance_to_prev'].sum().reset_index(), renamed: one row
\* per group, groups in ascending key order.
DailySums(f, byInd) ==
    LET idx == 1..Len(f.rows)
        KeyAt(i) == IF byInd THEN <<f.rows[i][IND], f.rows[i]["date"]>>
                    ELSE <<"", f.rows[i]["date"]>>
        Rank(k) == (IF byInd THEN IdRank(k[1]) ELSE 0) * 100000 + k[2]
        ordered == SortedSeq({[rank |-> Rank(KeyAt(i)), val |-> KeyAt(i)] : i \in idx})
        Group(k) == IF byInd THEN RowsWhere(RowsWhere(f.rows, IND, k[1]), "date", k[2])
                    ELSE RowsWhere(f.rows, "date", k[2])
        Total(k) == SumCol(Group(k), "distance_to_prev", 1)
        cols == (IF byInd THEN {IND} ELSE {}) \cup {"date", "daily_distance"}
    IN  Frame(cols,
              [j \in 1..Len(ordered) |->
                  [c \in cols |->
                      CASE c = IND -> ordered[j][1]
                        [] c = "date" -> ordered[j][2]
                        [] OTHER -> Total(ordered[j])]])

\* The rest of calculate_daily_distance once the local frame loc is chosen;
\* alias: loc is the caller's own frame, which the date assignment changes.
DailyFrom(f, loc, alias, by_individual) ==
    IF TS \notin loc.columns THEN Raise("KeyError", NoFrame, f)
    ELSE LET dated == WithColumn(loc, "date",
                         [i \in 1..Len(loc.rows) |-> DateOf(loc.rows[i][TS])])
             after == IF alias THEN dated ELSE f
         IN  IF "distance_to_prev" \notin dated.columns
             THEN Raise("KeyError", NoFrame, after)
             ELSE Ok(DailySums(dated, by_individual /\ IND \in dated.columns), after)

calculate_daily_distance(f, by_individual) ==
    IF Empty(f) THEN {Ok(NoFrame, f)}
    ELSE IF "distance_to_prev" \in f.columns
         THEN {DailyFrom(f, f, TRUE, by_individual)}
    ELSE { IF o.raised THEN o
           ELSE DailyFrom(f, o.ret, Len(f.rows) < 2, by_individual) :
             o \in calculate_distances(f) }

\* Series.diff() of the timestamps in seconds: NaN for the first row.
TimeDiffSeconds(f) ==
    [i \in 1..Len(f.rows) |->
        IF i = 1 THEN NaN ELSE Num((f.rows[i][TS] - f.rows[i - 1][TS]) * 60)]

\* np.where(time_diff > 0, distance_to_prev / time_diff, 0)
speed_mps(dist, time_diff) ==
    IF FGt(time_diff, Num(0)) THEN FDiv(Num(dist), time_diff) ELSE Num(0)

\* The keys of summary_stats: the groups that hold a speed under 100 km/h.
SpeedSummaryKeys(f) ==
    LET Valid(r) == FLt(r["speed_kmh"], Num(100))
    IN  IF IND \in f.columns
        THEN {r[IND] : r \in {f.rows[i] : i \in {j \in 1..Len(f.rows) : Valid(f.rows[j])}}}
        ELSE IF \E i \in 1..Len(f.rows) : Valid(f.rows[i]) THEN {"all"} ELSE {}

\* The rest of calculate_speed_metrics once the local frame loc is chosen.
SpeedFrom(f, loc, alias) ==
    IF TS \notin loc.columns
    THEN Raise("KeyError", [df |-> NoFrame, summary_stats |-> {}], f)
    ELSE LET td == TimeDiffSeconds(loc)
             n == Len(loc.rows)
             mps == [i \in 1..n |-> speed_mps(loc.rows[i]["distance_to_prev"], td[i])]
             kmh == [i \in 1..n |-> FMul(mps[i], Fin(36, 10))]
             out == WithColumn(WithColumn(WithColumn(loc, "time_diff", td),
                                          "speed_mps", mps), "speed_kmh", kmh)
         IN  Ok([df |-> out, summary_stats |-> SpeedSummaryKeys(out)],
                IF alias THEN out ELSE f)

calculate_speed_metrics(f) ==
    IF Empty(f) \/ Len(f.rows) < 2
    THEN {Ok([df |-> f, summary_stats |-> {}], f)}
    ELSE IF "distance_to_prev" \in f.columns THEN {SpeedFrom(f, f, TRUE)}
    ELSE { IF o.raised
           THEN Raise(o.err, [df |-> NoFrame, summary_stats |-> {}], f)
           ELSE SpeedFrom(f, o.ret, FALSE) :
             o \in calculate_distances(f) }

\* ------------------------------------------------------- app.py: activity
\* Column names of app.py.
A_LAT == "location_lat"
A_LONG == "location_long"
A_IND == "individual_id"

\* app.py's haversine_distance, in km (r = 6371), on one meridian.
app_haversine_distance(lat1, lon1, lat2, lon2) ==
    Fin(DegreeMetres * Abs(lat2 - lat1), 1000)

\* An input left unset (None).
None == [k |-> "none", n |-> 0, d |-> 1]
\* Python's `not x` for a number or None
Falsy(x) == x.k = "none" \/ (x.k = "fin" /\ x.n = 0)

FAdd(a, b) ==
    IF IsNaN(a) \/ IsNaN(b) THEN NaN
    ELSE IF a.k = "inf" THEN (IF b.k = "inf" /\ b.n # a.n THEN NaN ELSE a)
    ELSE IF b.k = "inf" THEN b
    ELSE Fin(a.n * b.d + b.n * a.d, a.d * b.d)

\* Series.sum() over floats.
RECURSIVE FSum(_, _)
FSum(vals, i) == IF i > Len(vals) THEN Num(0) ELSE FAdd(vals[i], FSum(vals, i + 1))

\* Series.diff() of the timestamps in minutes: NaN for the first row.
TimeDiffMinutes(f) ==
    [i \in 1..Len(f.rows) |->
        IF i = 1 THEN NaN ELSE Num(f.rows[i][TS] - f.rows[i - 1][TS])]

\* The distance column of calculate_single_activity: NaN, then filled for
\* every row but the last with the distance from that row to the next.
ActivityDistance(f) ==
    [i \in 1..Len(f.rows) |->
        IF i = Len(f.rows) THEN NaN
        ELSE app_haversine_distance(f.rows[i][A_LAT], f.rows[i][A_LONG],
                                   f.rows[i + 1][A_LAT], f.rows[i + 1][A_LONG])]

\* Series.replace([np.nan, np.inf, -np.inf], 0)
ReplaceNonFinite(x) == IF IsFinite(x) THEN x ELSE Num(0)

\* ActivitySpeed without the replace of non-finite values
ActivitySpeed_NoReplace(distance, time_diff) ==
    FDiv(distance, FDiv(time_diff, Num(60)))

\* df['distance'] / (df['time_diff'] / 60), non-finite values set to 0
ActivitySpeed(distance, time_diff) ==
    ReplaceNonFinite(FDiv(distance, FDiv(time_diff, Num(60))))

\* (df['distance'] > activity_threshold) & (df['time_diff'] <= time_window)
IsActive(distance, time_diff, activity_threshold, time_window) ==
    FGt(distance, activity_threshold) /\ FLe(time_diff, time_window)

IsDaytime(hour) == hour >= 6 /\ hour < 18

\* The columns calculate_single_activity assigns to the frame it is given.
AnnotateActivity(f, activity_threshold, time_window) ==
    LET n == Len(f.rows)
        td == TimeDiffMinutes(f)
        dist == ActivityDistance(f)
        cols == f.columns \cup {"time_diff", "distance", "speed_kmh", "is_active",
                                "hour_of_day", "is_daytime"}
    IN  Frame(cols,
          [i \in 1..n |->
            [c \in cols |->
              CASE c = "time_diff" -> td[i]
                [] c = "distance" -> dist[i]
                [] c = "speed_kmh" -> ActivitySpeed(dist[i], td[i])
                [] c = "is_active" -> IsActive(dist[i], td[i], activity_threshold, time_window)
                [] c = "hour_of_day" -> HourOf(f.rows[i][TS])
                [] c = "is_daytime" -> IsDaytime(HourOf(f.rows[i][TS]))
                [] OTHER -> f.rows[i][c]]])

HourlyColumns ==
    {"hour_of_day", "activity_count", "total_count", "avg_speed",
     "activity_ratio", "activity", "is_daytime"}

\* groupby('hour_of_day').agg(...) and the ratio columns: one row per hour
\* that holds a fix, hours ascending.
HourlyActivity(g) ==
    LET hours == AscSeq({g.rows[i]["hour_of_day"] : i \in 1..Len(g.rows)})
        In(h) == RowsWhere(g.rows, "hour_of_day", h)
        Active(h) == Len(RowsWhere(In(h), "is_active", TRUE))
        Speeds(h) == [i \in 1..Len(In(h)) |-> In(h)[i]["speed_kmh"]]
        Ratio(h) == FDiv(Num(Active(h)), Num(Len(In(h))))
    IN  Frame(HourlyColumns,
          [j \in 1..Len(hours) |->
            [c \in HourlyColumns |->
              CASE c = "hour_of_day" -> hours[j]
                [] c = "activity_count" -> Active(hours[j])
                [] c = "total_count" -> Len(In(hours[j]))
                [] c = "avg_speed" -> FDiv(FSum(Speeds(hours[j]), 1), Num(Len(In(hours[j]))))
                [] c = "activity_ratio" -> Ratio(hours[j])
                [] c = "activity" -> FMul(Ratio(hours[j]), Num(100))
                [] OTHER -> IsDaytime(hours[j])]])

\* calculate_single_activity: the hourly table it returns and, as fixes,
\* the frame it was given with the columns it assigned.
calculate_single_activity(f, activity_threshold, time_window) ==
    LET g == AnnotateActivity(f, activity_threshold, time_window)
    IN  [hourly |-> HourlyActivity(g), fixes |-> g]

\* pd.concat of the per-individual tables, each with its individual_id.
RECURSIVE ConcatHourly(_, _, _)
ConcatHourly(singles, ids, i) ==
    IF i > Len(ids) THEN <<>>
    ELSE [j \in 1..Len(singles[i].hourly.rows) |->
             RowWith(singles[i].hourly.rows[j], A_IND, ids[i])]
         \o ConcatHourly(singles, ids, i + 1)

\* The per-individual tracks calculate_activity_metrics can obtain: the
\* frame sorted by [individual_id, timestamp] and cut by individual in
\* ascending order (each track timestamp-sorted, its ties in any order), or
\* the whole frame sorted by timestamp when there is no identifier column.
ActivitySorted(f) ==
    IF A_IND \in f.columns
    THEN LET byTime == sort_values(f, TS)
             ids == SortedSeq({[rank |-> IdRank(f.rows[i][A_IND]), val |-> f.rows[i][A_IND]] :
                                  i \in 1..Len(f.rows)})
         IN  {[ids |-> ids,
               tracks |-> [i \in 1..Len(ids) |->
                             Frame(f.columns, RowsWhere(s.rows, A_IND, ids[i]))]] :
                s \in byTime}
    ELSE {[ids |-> <<"">>, tracks |-> <<s>>] : s \in sort_values(f, TS)}

calculate_activity_metrics(f, activity_threshold, time_window) ==
    { LET singles == [i \in 1..Len(t.tracks) |->
                        calculate_single_activity(t.tracks[i], activity_threshold,
                                                  time_window)]
          fixes == [i \in 1..Len(singles) |-> singles[i].fixes]
      IN  IF A_IND \in f.columns
          THEN [result_df |-> Frame(IF Len(t.ids) = 0 THEN {}
                                    ELSE HourlyColumns \cup {A_IND},
                                    ConcatHourly(singles, t.ids, 1)),
                fixes |-> fixes]
          ELSE [result_df |-> singles[1].hourly, fixes |-> fixes] :
        t \in ActivitySorted(f) }

NoActivity == [result_df |-> NoFrame, fixes |-> <<>>]

\* df[df['individual_id'].isin(selected)]
RowsIn(f, c, selected) ==
    LET at == AscSeq({i \in 1..Len(f.rows) : f.rows[i][c] \in selected})
    IN  Frame(f.columns, [j \in 1..Len(at) |-> f.rows[at[j]]])

\* The callback on store-movement-data; movement_data is the frame the store
\* holds, NoFrame when the store is unset. selected_individuals is a set.
\* Whatever the try block raises is caught and {} returned.
calculate_activity_patterns(movement_data, activity_threshold, time_window, selected_individuals) ==
    IF movement_data = NoFrame THEN {Ok(NoActivity, movement_data)}
    ELSE IF \/ A_LAT \notin movement_data.columns
            \/ A_LONG \notin movement_data.columns
            \/ TS \notin movement_data.columns
         THEN {Ok(NoActivity, movement_data)}
    ELSE LET thr == IF Falsy(activity_threshold) THEN Fin(5, 100)
                    ELSE activity_threshold
             win == IF Falsy(time_window) THEN Num(60) ELSE time_window
             sel == IF selected_individuals # {} /\ A_IND \in movement_data.columns
                    THEN RowsIn(movement_data, A_IND, selected_individuals)
                    ELSE movement_data
         IN  {Ok(m, movement_data) : m \in calculate_activity_metrics(sel, thr, win)}

\* --------------------------------------------------- app.py: data quality
\* max of a non-empty set of integers (0 for the empty set)
MaxOf(S) == IF S = {} THEN 0 ELSE CHOOSE x \in S : \A y \in S : y <= x

\* Day of the week, 0 for Monday (day 0 of the model's calendar) to 6.
WeekdayOf(t) == DateOf(t) % 7

NoQuality ==
    [empty |-> TRUE,
     summary |-> [start_date |-> 0, end_date |-> 0, total_points |-> 0,
                  expected_points |-> 0, fix_success_rate |-> Num(0),
                  total_outages |-> 0, total_outage_time |-> 0,
                  avg_outage_duration |-> Num(0), max_outage_duration |-> 0],
     daily_completeness |-> <<>>,
     outages |-> <<>>,
     temporal_patterns |-> [has_weekly |-> FALSE, weekly |-> [w \in 0..6 |-> 0],
                            has_hourly |-> FALSE, hourly |-> {}]]

\* min(100, actual_fixes / expected_fixes * 100) if expected_fixes > 0 else 0
FixSuccessRate(actual_fixes, expected_fixes) ==
    IF expected_fixes > 0
    THEN PyMin(Num(100), FMul(FDiv(Num(actual_fixes), Num(expected_fixes)), Num(100)))
    ELSE Num(0)

\* IsOutage with >= for >
IsOutage_AtLeast(time_gap, expected_sampling_rate) ==
    ~IsNaN(time_gap) /\ ~FLt(time_gap, Num(expected_sampling_rate * 2))

\* df['time_gap'] > expected_sampling_rate * 2
IsOutage(time_gap, expected_sampling_rate) ==
    FGt(time_gap, Num(expected_sampling_rate * 2))

\* DailyCompleteness without the clip
DailyCompleteness_NoClip(count, expected_sampling_rate) ==
    FMul(FDiv(Num(count), Fin(24 * 60, expected_sampling_rate)), Num(100))

\* (daily_counts / daily_expected * 100).clip(upper=100) for one day
DailyCompleteness(count, expected_sampling_rate) ==
    PyMin(FMul(FDiv(Num(count), Fin(24 * 60, expected_sampling_rate)), Num(100)),
          Num(100))

\* SpanDays rounded up instead of down
SpanDays_Ceil(start_date, end_date) ==
    (end_date - start_date + MinutesPerDay - 1) \div MinutesPerDay

\* (end_date - start_date).days: whole days of the timedelta
SpanDays(start_date, end_date) == (end_date - start_date) \div MinutesPerDay

\* calculate_quality_metrics on the timestamp-sorted frame s (not empty).
QualityOf(s, expected_sampling_rate) ==
    LET n == Len(s.rows)
        ts == [i \in 1..n |-> s.rows[i][TS]]
        start_date == ts[1]
        end_date == ts[n]
        date_range == end_date - start_date
        expected_fixes == date_range \div expected_sampling_rate
        actual_fixes == n
        fix_success_rate == FixSuccessRate(actual_fixes, expected_fixes)
        time_gap == [i \in 1..n |-> IF i = n THEN NaN ELSE Num(ts[i + 1] - ts[i])]
        at == AscSeq({i \in 1..n : IsOutage(time_gap[i], expected_sampling_rate)})
        gaps == [j \in 1..Len(at) |-> ts[at[j] + 1] - ts[at[j]]]
        total == SumSeq(gaps, 1)
        dates == AscSeq({DateOf(ts[i]) : i \in 1..n})
        Count(d) == Cardinality({i \in 1..n : DateOf(ts[i]) = d})
        days == SpanDays(start_date, end_date)
    IN  [empty |-> FALSE,
         summary |->
            [start_date |-> start_date, end_date |-> end_date,
             total_points |-> actual_fixes, expected_points |-> expected_fixes,
             fix_success_rate |-> fix_success_rate,
             total_outages |-> Len(at),
             total_outage_time |-> total,
             avg_outage_duration |-> IF Len(at) = 0 THEN Num(0) ELSE Fin(total, Len(at)),
             max_outage_duration |-> MaxOf({gaps[j] : j \in 1..Len(at)})],
         daily_completeness |->
            [j \in 1..Len(dates) |->
                [date |-> dates[j],
                 completeness |-> DailyCompleteness(Count(dates[j]), expected_sampling_rate)]],
         outages |->
            [j \in 1..Len(at) |->
                [start_time |-> ts[at[j]], end_time |-> ts[at[j] + 1],
                 duration |-> gaps[j]]],
         temporal_patterns |->
            [has_weekly |-> days >= 7,
             weekly |-> [w \in 0..6 |->
                           IF days >= 7
                           THEN Cardinality({i \in 1..n : WeekdayOf(ts[i]) = w}) ELSE 0],
             has_hourly |-> days >= 30,
             hourly |-> IF days >= 30
                        THEN {[hour |-> h,
                               count |-> Cardinality({i \in 1..n : HourOf(ts[i]) = h})] :
                                 h \in {HourOf(ts[i]) : i \in 1..n}}
                        ELSE {}]]

\* calculate_quality_metrics: on an empty frame int(NaN) raises ValueError.
calculate_quality_metrics(f, expected_sampling_rate) ==
    IF Empty(f) THEN {Raise("ValueError", NoQuality, f)}
    ELSE {Ok(QualityOf(s, expected_sampling_rate), f) : s \in sort_values(f, TS)}

\* df[df['individual_id'] == selected_individual]
QualitySelect(f, selected_individual) ==
    IF selected_individual # "" /\ A_IND \in f.columns
    THEN Frame(f.columns, RowsWhere(f.rows, A_IND, selected_individual))
    ELSE f

\* The callback on store-movement-data: the sampling rate is an integer or
\* None, selected_individual an identifier or "" (unset). Whatever the try
\* block raises is caught and {} returned.
calculate_data_quality(movement_data, expected_sampling_rate, selected_individual) ==
    IF movement_data = NoFrame THEN {Ok(NoQuality, movement_data)}
    ELSE IF TS \notin movement_data.columns THEN {Ok(NoQuality, movement_data)}
    ELSE LET rate == IF Falsy(expected_sampling_rate) \/ expected_sampling_rate.n <= 0
                     THEN 60 ELSE expected_sampling_rate.n
         IN  { IF o.raised THEN Ok(NoQuality, movement_data) ELSE o :
                 o \in calculate_quality_metrics(
                        QualitySelect(movement_data, selected_individual), rate) }

\* ------------------------------------ components/analysis.py: fix success
\* value_counts().idxmax(): a most frequent value of vals (on a tie, any of
\* the most frequent).
Modes(vals) ==
    LET S == {vals[i] : i \in 1..Len(vals)}
        Count(v) == Cardinality({i \in 1..Len(vals) : vals[i] = v})
    IN  {v \in S : \A w \in S : Count(w) <= Count(v)}

\* The frequency inferred from the gaps of one group.
InferredFrequencies(diffs) ==
    {IF m > 1440 THEN Num(60) ELSE Num(m) : m \in Modes(diffs)}

\* The groups of the loop: one per identifier in ascending order, or the
\* whole frame under the key None (reported as 'all').
FixGroups(f) ==
    IF IND \in f.columns
    THEN LET ids == SortedSeq({[rank |-> IdRank(f.rows[i][IND]), val |-> f.rows[i][IND]] :
                                  i \in 1..Len(f.rows)})
         IN  [j \in 1..Len(ids) |->
                [key |-> ids[j], frame |-> Frame(f.columns, RowsWhere(f.rows, IND, ids[j]))]]
    ELSE <<[key |-> "all", frame |-> f]>>

\* The gaps between consecutive fixes of a group in timestamp order: what
\* is left of time_diff_minutes once the first row (NaN) is dropped. Only
\* the timestamps are read, and they are the same in every sorted
\* arrangement of the group.
GapsOf(g) ==
    LET s == CHOOSE x \in sort_values(g, TS) : TRUE
    IN  [i \in 1..(Len(s.rows) - 1) |-> s.rows[i + 1][TS] - s.rows[i][TS]]

\* Timestamps of the rows left after the first row is dropped.
KeptTimes(g) ==
    LET s == CHOOSE x \in sort_values(g, TS) : TRUE
    IN  [i \in 1..(Len(s.rows) - 1) |-> s.rows[i + 1][TS]]

\* One pass of the loop body for a group of at least two fixes, with the
\* frequency freq (a float) in force.
FixSuccessEntry(key, g, freq) ==
    LET diffs == GapsOf(g)
        kept == KeptTimes(g)
        start_time == kept[1]
        end_time == kept[Len(kept)]
        total_minutes == end_time - start_time
        expected_fixes == FDiv(Num(total_minutes), freq)
        actual_fixes == Len(kept)
        fix_success_rate ==
            IF FGt(expected_fixes, Num(0))
            THEN PyMin(FMul(FDiv(Num(actual_fixes), expected_fixes), Num(100)), Num(100))
            ELSE Num(0)
        gap_threshold_minutes == FMul(freq, Num(3))
        at == AscSeq({i \in 1..Len(diffs) : FGt(Num(diffs[i]), gap_threshold_minutes)})
        gap_summary ==
            [j \in 1..Len(at) |->
                [start_time |-> kept[at[j]] - diffs[at[j]],
                 end_time |-> kept[at[j]],
                 duration_hours |-> Fin(diffs[at[j]], 60)]]
    IN  [key |-> key,
         expected_frequency |-> freq,
         fix_success_rate |-> fix_success_rate,
         expected_fixes |-> expected_fixes,
         actual_fixes |-> actual_fixes,
         missing_fixes |-> IF FGt(expected_fixes, Num(actual_fixes))
                           THEN FAdd(expected_fixes, Num(-actual_fixes)) ELSE Num(0),
         gaps |-> gap_summary,
         total_gap_hours |->
            FSum([j \in 1..Len(at) |-> gap_summary[j].duration_hours], 1)]

\* The loop over the groups from position i on, expected_frequency being
\* the value the variable holds on entry (None until it is given or
\* inferred; once assigned it stays for the groups that follow).
RECURSIVE FixSuccessLoop(_, _, _)
FixSuccessLoop(groups, i, expected_frequency) ==
    IF i > Len(groups) THEN {<<>>}
    ELSE IF Len(groups[i].frame.rows) < 2
         THEN FixSuccessLoop(groups, i + 1, expected_frequency)
    ELSE LET freqs == IF expected_frequency = None
                      THEN InferredFrequencies(GapsOf(groups[i].frame))
                      ELSE {expected_frequency}
         IN  UNION { { <<FixSuccessEntry(groups[i].key, groups[i].frame, fq)>> \o rest :
                         rest \in FixSuccessLoop(groups, i + 1, fq) } :
                     fq \in freqs }

\* calculate_fix_success: the entries of the result in the order they are
\* made. expected_frequency is a float or None.
calculate_fix_success(f, expected_frequency) ==
    IF Empty(f) THEN {Ok(<<>>, f)}
    ELSE IF TS \notin f.columns THEN {Raise("KeyError", <<>>, f)}
    ELSE {Ok(r, f) : r \in FixSuccessLoop(FixGroups(f), 1, expected_frequency)}

\* ------------------------------------------- inputs of components/analysis.py
Ids == {IdSeq[i] : i \in 1..Len(IdSeq)}
TrackTimes == {0, 60, 1440}
Lats == {0, 1}

Restrict(r, cols) == [c \in cols |-> r[c]]

\* The column sets a caller may hand over: complete, with no identifier
\* column, and with a required column missing.
TrackColumns ==
    { {IND, TS, LAT, LONG}, {TS, LAT, LONG}, {IND, LAT, LONG}, {IND, TS, LONG} }

TrackRows(cols) ==
    { Restrict((IND :> i) @@ (TS :> t) @@ (LAT :> la) @@ (LONG :> 0), cols) :
        i \in Ids, t \in TrackTimes, la \in Lats }

FramesUpTo(cols, rowset, max) ==
    { Frame(cols, rows) : rows \in UNION { [1..n -> rowset] : n \in 0..max } }

FramesOver(cols, rowset) == FramesUpTo(cols, rowset, MaxRows)

NoCall == [fn |-> "none"]

InitTrack ==
    /\ \E cols \in TrackColumns : df \in FramesOver(cols, TrackRows(cols))
    /\ call = NoCall
    /\ result = Ok(NoFrame, NoFrame)

\* ---------------------------------------------------------- inputs of app.py
AppColumns ==
    { {A_IND, TS, A_LAT, A_LONG}, {TS, A_LAT, A_LONG}, {A_IND, A_LAT, A_LONG},
      {A_IND, TS, A_LONG} }

AppTimes == {0, 60}

AppRows(cols) ==
    { Restrict((A_IND :> i) @@ (TS :> t) @@ (A_LAT :> la) @@ (A_LONG :> 0), cols) :
        i \in Ids, t \in AppTimes, la \in Lats }

\* The store holds a frame or is unset.
InitActivity ==
    /\ \/ \E cols \in AppColumns : df \in FramesOver(cols, AppRows(cols))
       \/ df = NoFrame
    /\ call = NoCall
    /\ result = Ok(NoFrame, NoFrame)

IsAnalysisFrame(f) == f.columns \subseteq {IND, TS, LAT, LONG} /\ f.columns # {}
IsAppFrame(f) == f.columns \subseteq {A_IND, TS, A_LAT, A_LONG}

\* The control values the callback is fired with: all unset (the defaults
\* 0.05 km and 60 minutes apply), then one of them set.
ActivityInputs ==
    { [activity_threshold |-> None, time_window |-> None, selected_individuals |-> {}],
      [activity_threshold |-> Num(200), time_window |-> None, selected_individuals |-> {}],
      [activity_threshold |-> None, time_window |-> Num(30), selected_individuals |-> {}],
      [activity_threshold |-> None, time_window |-> None, selected_individuals |-> {"a"}] }

CallDistances ==
    /\ call.fn = "none"
    /\ IsAnalysisFrame(df)
    /\ \E o \in calculate_distances(df) : result' = o
    /\ call' = [fn |-> "calculate_distances"]
    /\ UNCHANGED df

CallDailyDistance ==
    /\ call.fn = "none"
    /\ IsAnalysisFrame(df)
    /\ \E b \in BOOLEAN :
        /\ \E o \in calculate_daily_distance(df, b) : result' = o
        /\ call' = [fn |-> "calculate_daily_distance", by_individual |-> b]
    /\ UNCHANGED df

CallSpeedMetrics ==
    /\ call.fn = "none"
    /\ IsAnalysisFrame(df)
    /\ \E o \in calculate_speed_metrics(df) : result' = o
    /\ call' = [fn |-> "calculate_speed_metrics"]
    /\ UNCHANGED df

CallActivityPatterns ==
    /\ call.fn = "none"
    /\ IsAppFrame(df)
    /\ \E in \in ActivityInputs :
        /\ \E o \in calculate_activity_patterns(df, in.activity_threshold,
                        in.time_window, in.selected_individuals) : result' = o
        /\ call' = [fn |-> "calculate_activity_patterns",
                    activity_threshold |-> IF Falsy(in.activity_threshold)
                                           THEN Fin(5, 100) ELSE in.activity_threshold,
                    time_window |-> IF Falsy(in.time_window)
                                    THEN Num(60) ELSE in.time_window,
                    selected_individuals |-> in.selected_individuals]
    /\ UNCHANGED df

NextTrack ==
    CallDistances \/ CallDailyDistance \/ CallSpeedMetrics \/ CallActivityPatterns

SpecTrack == (InitTrack \/ InitActivity) /\ [][NextTrack]_vars

\* -------------------------------------------------- claims: track preprocessor
Required == {TS, LAT, LONG}

RowsOf(f, id) == RowsWhere(f.rows, IND, id)

IsSortedBy(rows, c) == \A i \in 1..(Len(rows) - 1) : rows[i][c] <= rows[i + 1][c]

\* C1: for every track with the required columns, whatever its length and
\* row order, the frame calculate_distances returns is in non-decreasing
\* timestamp order, holds the same number of rows, and carries a
\* distance_to_prev that is 0 on the first row and, on every later row, the
\* distance to the row just before it.
C1_DistancesContract ==
    (call.fn = "calculate_distances" /\ Required \subseteq df.columns) =>
        /\ ~result.raised
        /\ Len(result.ret.rows) = Len(df.rows)
        /\ IsSortedBy(result.ret.rows, TS)
        /\ \A i \in 1..Len(result.ret.rows) :
            /\ "distance_to_prev" \in result.ret.columns
            /\ result.ret.rows[i]["distance_to_prev"] =
                  IF i = 1 THEN 0
                  ELSE haversine_distance(
                          result.ret.rows[i - 1][LAT], result.ret.rows[i - 1][LONG],
                          result.ret.rows[i][LAT], result.ret.rows[i][LONG])

\* The track lengths calculate_distances can report for the fixes of id
\* taken alone (0 for a track too short to have a step).
AloneTotals(id) ==
    LET own == Frame(df.columns, RowsOf(df, id))
    IN  IF Len(own.rows) < 2 THEN {0}
        ELSE { SumCol(o.ret.rows, "distance_to_prev", 1) : o \in calculate_distances(own) }

\* Step distances of a returned frame are per individual: the first row of
\* each individual has 0 and the individual's total is its track's own.
PerIndividual(f) ==
    \A id \in {df.rows[i][IND] : i \in 1..Len(df.rows)} :
        /\ RowsOf(f, id)[1]["distance_to_prev"] = 0
        /\ SumCol(RowsOf(f, id), "distance_to_prev", 1) \in AloneTotals(id)

\* C2: with several individuals in one frame, the step distance of a fix is
\* taken against the previous fix of the same individual: the first fix of
\* each individual has distance 0, and each individual's total distance
\* (from calculate_distances, calculate_speed_metrics and, summed over its
\* days, calculate_daily_distance) is what its own fixes alone give.
C2_PerIndividualDistance ==
    (/\ Required \cup {IND} \subseteq df.columns
     /\ Len(df.rows) >= 2
     /\ ~result.raised) =>
        /\ call.fn = "calculate_distances" => PerIndividual(result.ret)
        /\ call.fn = "calculate_speed_metrics" => PerIndividual(result.ret.df)
        /\ (call.fn = "calculate_daily_distance" /\ call.by_individual) =>
              \A id \in {df.rows[i][IND] : i \in 1..Len(df.rows)} :
                  SumCol(RowsOf(result.ret, id), "daily_distance", 1) \in AloneTotals(id)

\* C3: on a track of 0 or 1 fixes calculate_distances,
\* calculate_daily_distance and calculate_speed_metrics return without
\* raising and report no distance.
C3_ShortTrackNoError ==
    (/\ call.fn \in {"calculate_distances", "calculate_daily_distance",
                     "calculate_speed_metrics"}
     /\ Required \subseteq df.columns
     /\ Len(df.rows) <= 1) =>
        /\ ~result.raised
        /\ call.fn = "calculate_daily_distance" =>
              SumCol(result.ret.rows, "daily_distance", 1) = 0

\* ------------------------------------------------------------ claims: speed
\* The two speed computations on frames that hold every column.
InitSpeed ==
    /\ \/ df \in FramesOver({IND, TS, LAT, LONG}, TrackRows({IND, TS, LAT, LONG}))
       \/ df \in FramesOver({TS, LAT, LONG}, TrackRows({TS, LAT, LONG}))
       \/ df \in FramesOver({A_IND, TS, A_LAT, A_LONG}, AppRows({A_IND, TS, A_LAT, A_LONG}))
       \/ df \in FramesOver({TS, A_LAT, A_LONG}, AppRows({TS, A_LAT, A_LONG}))
    /\ call = NoCall
    /\ result = Ok(NoFrame, NoFrame)

NextSpeed == CallSpeedMetrics \/ CallActivityPatterns

SpecSpeed == InitSpeed /\ [][NextSpeed]_vars

\* x is a finite number >= 0
FiniteNonNegative(x) == IsFinite(x) /\ x.n >= 0

\* C4: every speed produced is finite and non-negative, and is exactly 0
\* wherever the time difference is undefined (first fix) or zero (equal
\* timestamps): speed_mps and speed_kmh of calculate_speed_metrics,
\* speed_kmh of calculate_single_activity and the hourly avg_speed it
\* returns.
C4_SpeedsFinite ==
    /\ (call.fn = "calculate_speed_metrics" /\ ~result.raised
        /\ "speed_kmh" \in result.ret.df.columns) =>
          \A i \in 1..Len(result.ret.df.rows) :
              LET r == result.ret.df.rows[i]
              IN  /\ FiniteNonNegative(r["speed_mps"])
                  /\ FiniteNonNegative(r["speed_kmh"])
                  /\ (IsNaN(r["time_diff"]) \/ r["time_diff"] = Num(0)) =>
                        (r["speed_mps"] = Num(0) /\ r["speed_kmh"] = Num(0))
    /\ call.fn = "calculate_activity_patterns" =>
          /\ ~result.raised
          /\ \A t \in 1..Len(result.ret.fixes) :
               \A i \in 1..Len(result.ret.fixes[t].rows) :
                  LET r == result.ret.fixes[t].rows[i]
                  IN  /\ FiniteNonNegative(r["speed_kmh"])
                      /\ (IsNaN(r["time_diff"]) \/ r["time_diff"] = Num(0)) =>
                            r["speed_kmh"] = Num(0)
          /\ \A j \in 1..Len(result.ret.result_df.rows) :
                FiniteNonNegative(result.ret.result_df.rows[j]["avg_speed"])

\* C4 witness: calculate_single_activity has met two fixes with the same
\* timestamp a degree apart (the quotient is infinite before the
\* replacement).
C4_Witness ==
    /\ call.fn = "calculate_activity_patterns"
    /\ \E t \in 1..Len(result.ret.fixes) :
         \E i \in 1..Len(result.ret.fixes[t].rows) :
            LET r == result.ret.fixes[t].rows[i]
            IN  /\ r["time_diff"] = Num(0)
                /\ IsFinite(r["distance"]) /\ r["distance"].n > 0
                /\ r["speed_kmh"] = Num(0)
\* --------------------------------------------------------- claims: activity
\* C5: in calculate_single_activity a fix is active exactly when the step
\* from the previous fix of its track to it is longer than
\* activity_threshold and the time since that previous fix is at most
\* time_window; the first fix of a track is never active.
C5_ActiveFromPreviousStep ==
    call.fn = "calculate_activity_patterns" =>
        \A t \in 1..Len(result.ret.fixes) :
            LET rows == result.ret.fixes[t].rows
            IN  \A i \in 1..Len(rows) :
                  rows[i]["is_active"] =
                    (/\ i > 1
                     /\ FGt(app_haversine_distance(rows[i - 1][A_LAT], rows[i - 1][A_LONG],
                                                   rows[i][A_LAT], rows[i][A_LONG]),
                            call.activity_threshold)
                     /\ FLe(Num(rows[i][TS] - rows[i - 1][TS]), call.time_window))

\* C6: when a required column (latitude, longitude or timestamp) is absent
\* the component does not raise and returns an empty result: here
\* calculate_distances and calculate_speed_metrics of analysis.py (of which
\* only that they do not raise is asked) and the activity callback of app.py.
C6_MissingColumnNoRaise ==
    /\ (/\ call.fn \in {"calculate_distances", "calculate_speed_metrics"}
        /\ ~(Required \subseteq df.columns)) =>
          ~result.raised
    /\ (/\ call.fn = "calculate_activity_patterns"
        /\ ~({A_LAT, A_LONG, TS} \subseteq df.columns)) =>
          (~result.raised /\ result.ret = NoActivity)

\* ------------------------------------------------------ data quality: inputs
QualityTimes == {0, 60, 120, 360, 2880}

\* Frames for the data-quality callback and for calculate_fix_success: with
\* an identifier column in either naming, with none, with no timestamp.
QualityColumns == { {A_IND, TS}, {IND, TS}, {TS}, {A_IND}, {IND} }

QualityRows(cols) ==
    { Restrict((A_IND :> i) @@ (IND :> i) @@ (TS :> t), cols) :
        i \in Ids, t \in QualityTimes }

InitQuality ==
    /\ \/ \E cols \in QualityColumns : df \in FramesOver(cols, QualityRows(cols))
       \/ df = NoFrame
    /\ call = NoCall
    /\ result = Ok(NoFrame, NoFrame)

SamplingRates == {None, Num(720)}
Frequencies == {None, Num(60), Num(720)}

CallDataQuality ==
    /\ call.fn = "none"
    /\ df.columns \subseteq {A_IND, TS}
    /\ \E rate \in SamplingRates, sel \in {"", "a"} :
        /\ \E o \in calculate_data_quality(df, rate, sel) : result' = o
        /\ call' = [fn |-> "calculate_data_quality",
                    rate |-> IF Falsy(rate) THEN 60 ELSE rate.n,
                    selected_individual |-> sel]
    /\ UNCHANGED df

CallFixSuccess ==
    /\ call.fn = "none"
    /\ df.columns \subseteq {IND, TS} /\ df.columns # {}
    /\ \E freq \in Frequencies :
        /\ \E o \in calculate_fix_success(df, freq) : result' = o
        /\ call' = [fn |-> "calculate_fix_success", expected_frequency |-> freq]
    /\ UNCHANGED df

NextQuality == CallDataQuality \/ CallFixSuccess

SpecQuality == InitQuality /\ [][NextQuality]_vars
\* ----------------------------------------------------- claims: data quality
\* x is a percentage: finite, 0 <= x <= 100
InPercent(x) == IsFinite(x) /\ 0 <= x.n /\ x.n <= 100 * x.d

\* The track the data-quality callback measures.
Measured == QualitySelect(df, call.selected_individual)

MeasuredDates == {DateOf(Measured.rows[i][TS]) : i \in 1..Len(Measured.rows)}

FixesOn(d) == Cardinality({i \in 1..Len(Measured.rows) : DateOf(Measured.rows[i][TS]) = d})

\* C7: for every track and positive expected interval, fix_success_rate and
\* every daily completeness lie in [0, 100]; daily completeness has exactly
\* one entry per calendar day that holds a fix, equal to
\* min(100, fixes_that_day / (1440 / interval) * 100).
C7_PercentagesBounded ==
    /\ (call.fn = "calculate_data_quality" /\ ~result.ret.empty) =>
          LET dc == result.ret.daily_completeness
          IN  /\ InPercent(result.ret.summary.fix_success_rate)
              /\ Len(dc) = Cardinality(MeasuredDates)
              /\ {dc[j].date : j \in 1..Len(dc)} = MeasuredDates
              /\ \A j \in 1..Len(dc) :
                    /\ InPercent(dc[j].completeness)
                    /\ dc[j].completeness =
                          IF FixesOn(dc[j].date) * call.rate >= 1440
                          THEN Num(100)
                          ELSE Fin(FixesOn(dc[j].date) * call.rate * 100, 1440)
    /\ (call.fn = "calculate_fix_success" /\ ~result.raised) =>
          \A j \in 1..Len(result.ret) : InPercent(result.ret[j].fix_success_rate)

\* C7 witness: a day holds more fixes than the interval expects (three fixes
\* at a 720-minute interval), so its completeness is the cap.
C7_Witness ==
    /\ call.fn = "calculate_data_quality" /\ ~result.ret.empty
    /\ call.rate = 720
    /\ \E j \in 1..Len(result.ret.daily_completeness) :
          /\ FixesOn(result.ret.daily_completeness[j].date) = 3
          /\ result.ret.daily_completeness[j].completeness = Num(100)

\* Timestamps of a frame in ascending order.
SortedTimes(f) ==
    LET s == CHOOSE x \in sort_values(f, TS) : TRUE
    IN  [i \in 1..Len(s.rows) |-> s.rows[i][TS]]

\* C8: expected_fixes is the elapsed minutes (last timestamp minus first)
\* divided by the expected interval, actual_fixes the number of fixes of the
\* track, and fix_success_rate min(100, actual / expected * 100), or 0 when
\* expected <= 0, in calculate_quality_metrics and, for a given interval, in
\* calculate_fix_success.
C8_FixSuccessFormula ==
    /\ (call.fn = "calculate_data_quality" /\ ~result.ret.empty) =>
          LET t == SortedTimes(Measured)
              expected == Fin(t[Len(t)] - t[1], call.rate)
              sm == result.ret.summary
          IN  /\ Num(sm.expected_points) = expected
              /\ sm.total_points = Len(t)
              /\ sm.fix_success_rate =
                    IF expected.n > 0
                    THEN PyMin(Num(100), FMul(FDiv(Num(Len(t)), expected), Num(100)))
                    ELSE Num(0)
    /\ (call.fn = "calculate_fix_success" /\ ~result.raised
        /\ call.expected_frequency # None) =>
          \A j \in 1..Len(result.ret) :
              LET e == result.ret[j]
                  own == IF IND \in df.columns
                         THEN Frame(df.columns, RowsOf(df, e.key)) ELSE df
                  t == SortedTimes(own)
                  expected == FDiv(Num(t[Len(t)] - t[1]), call.expected_frequency)
              IN  /\ e.expected_fixes = expected
                  /\ e.actual_fixes = Len(t)
                  /\ e.fix_success_rate =
                        IF expected.n > 0
                        THEN PyMin(Num(100), FMul(FDiv(Num(Len(t)), expected), Num(100)))
                        ELSE Num(0)

\* The outages the claim describes: the consecutive pairs of the measured
\* track, in timestamp order, whose gap exceeds twice the interval.
ClaimedOutages ==
    LET t == SortedTimes(Measured)
        at == AscSeq({i \in 1..(Len(t) - 1) : t[i + 1] - t[i] > 2 * call.rate})
    IN  [j \in 1..Len(at) |->
            [start_time |-> t[at[j]], end_time |-> t[at[j] + 1],
             duration |-> t[at[j] + 1] - t[at[j]]]]

\* C9: in calculate_quality_metrics the outages are exactly the pairs of
\* consecutive fixes whose gap is strictly greater than twice the expected
\* interval, each with start = the earlier fix, end = the later fix and
\* duration = the gap; total_outages counts them; a track whose gaps all
\* equal the interval has none.
C9_OutagesExact ==
    (call.fn = "calculate_data_quality" /\ ~result.ret.empty) =>
        /\ result.ret.outages = ClaimedOutages
        /\ result.ret.summary.total_outages = Len(ClaimedOutages)
        /\ (\A i \in 1..(Len(Measured.rows) - 1) :
                SortedTimes(Measured)[i + 1] - SortedTimes(Measured)[i] = call.rate)
              => result.ret.summary.total_outages = 0

\* C9 witness: fixes at 0, 60 and 360 minutes with a 60-minute interval: one
\* outage of 300 minutes, from the fix at 60 to the fix at 360.
C9_Witness ==
    /\ call.fn = "calculate_data_quality" /\ ~result.ret.empty
    /\ call.rate = 60
    /\ SortedTimes(Measured) = <<0, 60, 360>>
    /\ result.ret.outages = <<[start_time |-> 60, end_time |-> 360, duration |-> 300]>>
    /\ result.ret.summary.total_outages = 1

\* ------------------------------------------ claims: the inferred interval
InferTimes == {0, 60, 120, 2880}

InitFixSuccess ==
    /\ df \in FramesUpTo({IND, TS}, { (IND :> i) @@ (TS :> t) : i \in Ids, t \in InferTimes },
                         MaxFixRows)
    /\ call = NoCall
    /\ result = Ok(NoFrame, NoFrame)

SpecFixSuccess == InitFixSuccess /\ [][CallFixSuccess]_vars

\* C10: with no interval given, calculate_fix_success uses for each
\* individual a most frequent gap between that individual's own
\* consecutive fixes, or 60 when that gap exceeds 1440 minutes, whatever the
\* other individuals of the call.
C10_IntervalPerIndividual ==
    (call.fn = "calculate_fix_success" /\ ~result.raised
     /\ call.expected_frequency = None) =>
        \A j \in 1..Len(result.ret) :
            LET own == SortedTimes(Frame(df.columns, RowsOf(df, result.ret[j].key)))
                gaps == {own[i + 1] - own[i] : i \in 1..(Len(own) - 1)}
                Count(g) == Cardinality({i \in 1..(Len(own) - 1) : own[i + 1] - own[i] = g})
                modes == {g \in gaps : \A h \in gaps : Count(h) <= Count(g)}
            IN  result.ret[j].expected_frequency \in
                    {IF m > 1440 THEN Num(60) ELSE Num(m) : m \in modes}
\* ------------------------------------------- claims: temporal histograms
\* Timestamps around the 7-day and the 30-day span.
PatternTimes == {0, 60, 7 * MinutesPerDay - 60, 7 * MinutesPerDay,
                 30 * MinutesPerDay - 60, 30 * MinutesPerDay}

InitPatterns ==
    /\ df \in FramesOver({TS}, { (TS :> t) : t \in PatternTimes })
    /\ call = NoCall
    /\ result = Ok(NoFrame, NoFrame)

SpecPatterns == InitPatterns /\ [][CallDataQuality]_vars

\* C11: the weekly histogram is present exactly when the track spans at
\* least 7 days, and then has all seven weekday keys, zero where no fix
\* falls, with counts summing to the number of fixes; the hourly histogram
\* is present exactly when the track spans at least 30 days, so never
\* without the weekly one.
C11_TemporalPatterns ==
    (call.fn = "calculate_data_quality" /\ ~result.ret.empty) =>
        LET t == SortedTimes(Measured)
            span == t[Len(t)] - t[1]
            tp == result.ret.temporal_patterns
        IN  /\ tp.has_weekly <=> (span >= 7 * 24 * 60)
            /\ tp.has_weekly =>
                  /\ DOMAIN tp.weekly = 0..6
                  /\ \A w \in 0..6 :
                        tp.weekly[w] =
                           Cardinality({i \in 1..Len(t) : (t[i] \div (24 * 60)) % 7 = w})
                  /\ SumSeq([j \in 1..7 |-> tp.weekly[j - 1]], 1) = Len(t)
            /\ tp.has_hourly <=> (span >= 30 * 24 * 60)
            /\ tp.has_hourly => tp.has_weekly
            /\ tp.has_hourly =>
                  SumSeq(LET hs == AscSeq({r.hour : r \in tp.hourly})
                         IN  [j \in 1..Len(hs) |->
                                (CHOOSE r \in tp.hourly : r.hour = hs[j]).count], 1) = Len(t)

\* C11 witness: a track of exactly 30 days has both histograms, with a
\* weekday that holds no fix reported as zero.
C11_Witness ==
    /\ call.fn = "calculate_data_quality" /\ ~result.ret.empty
    /\ result.ret.summary.end_date - result.ret.summary.start_date = 30 * 24 * 60
    /\ result.ret.temporal_patterns.has_hourly
    /\ result.ret.temporal_patterns.has_weekly
    /\ \E w \in 0..6 : result.ret.temporal_patterns.weekly[w] = 0
    /\ \E w \in 0..6 : result.ret.temporal_patterns.weekly[w] > 0
\* ------------------------------ components/analysis.py: home range estimators
\* The estimators of analysis.py read a frame only through its grouping, the
\* number of fixes of each group and the geometry of the group's points; the
\* numerical result (hull, density contour, projected area) is a function of
\* the group's points and of the parameters handed to the library, and is
\* carried as that tuple.  A range frame holds, for each group key, the
\* number of fixes and whether the points are collinear (a degenerate hull
\* for Qhull, a singular covariance for gaussian_kde).
RangeFrame(cols, fixes) == [columns |-> cols, fixes |-> fixes]

\* len(df)
RangeLen(f) ==
    LET keys == AscSeq({IdRank(k) : k \in DOMAIN f.fixes \cap Ids})
    IN  IF IND \in f.columns
        THEN SumSeq([j \in 1..Len(keys) |-> f.fixes[IdSeq[keys[j]]].n], 1)
        ELSE f.fixes["all"].n

\* df.groupby('individual-local-identifier') if the column exists else
\* [(None, df)]: the keys in the order of the loop (groupby sorts its keys;
\* an identifier without rows is no group).
RangeGroups(f) ==
    IF IND \in f.columns
    THEN LET ranks == AscSeq({IdRank(k) : k \in {x \in DOMAIN f.fixes : f.fixes[x].n > 0}})
         IN  [j \in 1..Len(ranks) |-> IdSeq[ranks[j]]]
    ELSE <<"all">>

NoBandwidth == [k |-> "none", v |-> 0]
\* Scott's rule n ** (-1. / (d + 4)), a different number for each n
Scott(n) == [k |-> "scott", v |-> n]
GivenBandwidth(b) == [k |-> "given", v |-> b]

\* {'polygons': [], 'areas': {}}
NoRange == [polygons |-> <<>>, areas |-> {}]

\* int(np.ceil(len(coords) * (percentage / 100.0)))
CeilPercent(n, percentage) == (n * percentage + 99) \div 100

\* The hull of one group, as appended to the polygons of the result.
McpEntry(key, n, percentage) ==
    [individual |-> key, method |-> "mcp", n |-> n,
     kept |-> IF percentage < 100 THEN CeilPercent(n, percentage) ELSE n,
     bandwidth |-> NoBandwidth, percentage |-> percentage]

\* The loop of calculate_home_range_mcp over the groups from position i.
RECURSIVE McpLoop(_, _, _, _, _)
McpLoop(f, groups, i, percentage, acc) ==
    IF i > Len(groups) THEN acc
    ELSE LET key == groups[i]
             group == f.fixes[key]
             e == McpEntry(key, group.n, percentage)
         IN  IF group.n < 3 THEN McpLoop(f, groups, i + 1, percentage, acc)
             ELSE IF e.kept >= 3 /\ ~group.collinear
                  THEN McpLoop(f, groups, i + 1, percentage,
                               [polygons |-> Append(acc.polygons, e),
                                areas |-> acc.areas \cup {key}])
                  \* fewer than 3 kept points: nothing; ConvexHull of
                  \* collinear points raises QhullError, caught and printed
                  ELSE McpLoop(f, groups, i + 1, percentage, acc)

calculate_home_range_mcp(f, percentage) ==
    IF RangeLen(f) < 3 THEN {Ok(NoRange, f)}
    ELSE {Ok(McpLoop(f, RangeGroups(f), 1, percentage, NoRange), f)}

\* The contour of one group under the bandwidth in force.
KdeEntry(key, n, percentage, bandwidth) ==
    [individual |-> key, method |-> "kde", n |-> n, kept |-> n,
     bandwidth |-> bandwidth, percentage |-> percentage]

\* The loop of calculate_home_range_kde over the groups from position i;
\* bandwidth is the function's parameter, assigned inside the try block of
\* the first group that reaches it.
RECURSIVE KdeLoop(_, _, _, _, _, _)
KdeLoop(f, groups, i, percentage, bandwidth, acc) ==
    IF i > Len(groups) THEN acc
    ELSE LET key == groups[i]
             group == f.fixes[key]
             used == IF bandwidth = NoBandwidth THEN Scott(group.n) ELSE bandwidth
         IN  IF group.n < 10 THEN KdeLoop(f, groups, i + 1, percentage, bandwidth, acc)
             ELSE IF ~group.collinear
                  THEN KdeLoop(f, groups, i + 1, percentage, used,
                               [polygons |->
                                   Append(acc.polygons,
                                          KdeEntry(key, group.n, percentage, used)),
                                areas |-> acc.areas \cup {key}])
                  \* gaussian_kde raises on a singular covariance, after the
                  \* assignment of bandwidth; caught and printed
                  ELSE KdeLoop(f, groups, i + 1, percentage, used, acc)

calculate_home_range_kde(f, percentage, bandwidth) ==
    IF RangeLen(f) < 10 THEN {Ok(NoRange, f)}
    ELSE {Ok(KdeLoop(f, RangeGroups(f), 1, percentage, bandwidth, NoRange), f)}

\* str.lower() on the method names the model uses
Lower(method) ==
    CASE method = "MCP" -> "mcp"
      [] method = "KDE" -> "kde"
      [] OTHER -> method

\* calculate_home_range(df, method='kde', percentage=95) of analysis.py
DefaultRangeMethod == "kde"

analysis_calculate_home_range(f, method, percentage) ==
    IF Lower(method) = "mcp" THEN calculate_home_range_mcp(f, percentage)
    ELSE IF Lower(method) = "kde" THEN calculate_home_range_kde(f, percentage, NoBandwidth)
    ELSE {Raise("ValueError", NoRange, f)}

\* ------------------------- inputs of the analysis.py home range estimators
\* Most fixes of one individual: one more than the 10 that the KDE asks for.
MaxKdeFixes == 11

RangeSizes == {0, 2, 3, 9, 10} \cup {MaxKdeFixes}

RangeTracks == [n : RangeSizes, collinear : BOOLEAN]

InitRange ==
    /\ \/ df \in {RangeFrame({IND, LAT, LONG}, fx) : fx \in [Ids -> RangeTracks]}
       \/ df \in {RangeFrame({LAT, LONG}, [k \in {"all"} |-> t]) : t \in RangeTracks}
    /\ call = NoCall
    /\ result = Ok(NoRange, df)

IsRangeFrame(f) == "fixes" \in DOMAIN f

Percentages == {50, 95, 100}

CallHomeRangeMcp ==
    /\ call.fn = "none" /\ IsRangeFrame(df)
    /\ \E percentage \in Percentages :
          /\ call' = [fn |-> "calculate_home_range_mcp", method |-> "mcp",
                      percentage |-> percentage, bandwidth |-> NoBandwidth]
          /\ result' \in calculate_home_range_mcp(df, percentage)
    /\ df' = result'.arg

CallHomeRangeKde ==
    /\ call.fn = "none" /\ IsRangeFrame(df)
    /\ \E percentage \in Percentages, bandwidth \in {NoBandwidth, GivenBandwidth(1)} :
          /\ call' = [fn |-> "calculate_home_range_kde", method |-> "kde",
                      percentage |-> percentage, bandwidth |-> bandwidth]
          /\ result' \in calculate_home_range_kde(df, percentage, bandwidth)
    /\ df' = result'.arg

RangeMethods == {"mcp", "MCP", "kde", "bbmm", "locoht", "hull"}

\* calculate_home_range of analysis.py, with the method given or left to
\* the default of the signature
CallAnalysisHomeRange ==
    /\ call.fn = "none" /\ IsRangeFrame(df)
    /\ \E given \in BOOLEAN, m \in RangeMethods, percentage \in Percentages :
          LET method == IF given THEN m ELSE DefaultRangeMethod
          IN  /\ given \/ m = "mcp"
              /\ call' = [fn |-> "analysis.calculate_home_range", method |-> method,
                          percentage |-> percentage, bandwidth |-> NoBandwidth,
                          given |-> given]
              /\ result' \in analysis_calculate_home_range(df, method, percentage)
    /\ df' = result'.arg

NextRange == CallHomeRangeMcp \/ CallHomeRangeKde \/ CallAnalysisHomeRange

SpecRange == InitRange /\ [][NextRange]_vars

\* --------------------------------------- claims: independence of individuals
\* The frame holding only the fixes of one individual.
AloneRange(f, key) ==
    RangeFrame(f.columns, [k \in DOMAIN f.fixes |->
                              IF k = key THEN f.fixes[k]
                              ELSE [n |-> 0, collinear |-> FALSE]])

EntriesOf(r, key) == {r.polygons[j] : j \in {i \in 1..Len(r.polygons) : r.polygons[i].individual = key}}

\* C12: the home range reported for an individual in a multi-individual
\* call equals the result of the same method with the same parameters on
\* that individual's track alone, whatever the other individuals of the
\* batch (the bandwidth of calculate_home_range_kde included).
C12_IndependentIndividuals ==
    (call.fn \in {"calculate_home_range_kde", "calculate_home_range_mcp"}
     /\ IND \in df.columns) =>
        \A key \in Ids :
            \A alone \in (IF call.fn = "calculate_home_range_kde"
                          THEN calculate_home_range_kde(AloneRange(df, key),
                                                        call.percentage, call.bandwidth)
                          ELSE calculate_home_range_mcp(AloneRange(df, key),
                                                        call.percentage)) :
                EntriesOf(result.ret, key) = EntriesOf(alone.ret, key)
\* ------------------------------------------------ app.py: planar geometry
\* A coordinate is <<x, y>> = <<longitude, latitude>> in whole degrees.  A
\* geometry is [geom_type, polys]; a polygon is [exterior, interiors], each
\* ring a closed sequence of coordinates.
\* A cell of the frame that holds no number.
Malformed == 1000

\* Twice the signed area of the triangle a, b, c (positive: left turn).
Orient(a, b, c) == (b[1] - a[1]) * (c[2] - a[2]) - (b[2] - a[2]) * (c[1] - a[1])

OnSegment(p, a, b) ==
    /\ Orient(a, b, p) = 0
    /\ (a[1] <= p[1] /\ p[1] <= b[1]) \/ (b[1] <= p[1] /\ p[1] <= a[1])
    /\ (a[2] <= p[2] /\ p[2] <= b[2]) \/ (b[2] <= p[2] /\ p[2] <= a[2])

InTriangle(p, a, b, c) ==
    \/ Orient(a, b, p) >= 0 /\ Orient(b, c, p) >= 0 /\ Orient(c, a, p) >= 0
    \/ Orient(a, b, p) <= 0 /\ Orient(b, c, p) <= 0 /\ Orient(c, a, p) <= 0

Collinear(S) == \A a, b, c \in S : Orient(a, b, c) = 0

\* The extreme points of S.
HullVertices(S) ==
    { p \in S :
        /\ ~ \E a, b \in S \ {p} : a # b /\ OnSegment(p, a, b)
        /\ ~ \E a, b, c \in S \ {p} : Orient(a, b, c) # 0 /\ InTriangle(p, a, b, c) }

\* The vertices V of a convex polygon as a closed ring, clockwise from the
\* leftmost lowest vertex.
RECURSIVE WalkRing(_, _, _)
WalkRing(V, v, k) ==
    IF k = 0 THEN <<>>
    ELSE LET w == CHOOSE u \in V \ {v} : \A q \in V \ {v, u} : Orient(v, u, q) < 0
         IN  <<v>> \o WalkRing(V, w, k - 1)

ClosedRing(coords) ==
    IF Len(coords) = 0 \/ coords[1] = coords[Len(coords)] THEN coords
    ELSE Append(coords, coords[1])

HullRing(V) ==
    LET start == CHOOSE v \in V : \A w \in V : v[1] < w[1] \/ (v[1] = w[1] /\ v[2] <= w[2])
    IN  ClosedRing(WalkRing(V, start, Cardinality(V)))

\* Twice the unsigned area enclosed by a closed ring (shoelace formula).
RECURSIVE Shoelace(_, _)
Shoelace(ring, i) ==
    IF i >= Len(ring) THEN 0
    ELSE ring[i][1] * ring[i + 1][2] - ring[i + 1][1] * ring[i][2] + Shoelace(ring, i + 1)

RingArea2(ring) == Abs(Shoelace(ring, 1))

Geometry(geom_type, polys) == [geom_type |-> geom_type, polys |-> polys]

\* Polygon(shell, holes): shapely closes every ring
Polygon(shell, holes) ==
    [exterior |-> ClosedRing(shell),
     interiors |-> [j \in 1..Len(holes) |-> ClosedRing(holes[j])]]

\* MultiPoint(points).convex_hull: an empty collection, a Point, a
\* LineString or the Polygon through the extreme points
convex_hull(S) ==
    IF S = {} THEN Geometry("GeometryCollection", <<>>)
    ELSE IF Cardinality(S) = 1 THEN Geometry("Point", <<>>)
    ELSE IF Collinear(S) THEN Geometry("LineString", <<>>)
    ELSE Geometry("Polygon", <<Polygon(HullRing(HullVertices(S)), <<>>)>>)

\* polygon.area, doubled: the exterior less the holes, summed over the parts
RECURSIVE GeomArea2(_, _)
GeomArea2(g, i) ==
    IF i > Len(g.polys) THEN 0
    ELSE LET q == g.polys[i]
         IN  RingArea2(q.exterior)
             - SumSeq([j \in 1..Len(q.interiors) |-> RingArea2(q.interiors[j])], 1)
             + GeomArea2(g, i + 1)

\* calculate_area_km2: area_degrees * 111.32**2 * cos(radians(mean_latitude)).
\* The product is carried as its two factors that vary, the doubled planar
\* area and the latitude whose cosine is taken (never negative in the
\* model); a zero area is 0.0 whatever the latitude, a NaN latitude gives NaN.
calculate_area_km2(polygon, mean_latitude) ==
    IF IsNaN(mean_latitude) THEN [k |-> "nan", area2 |-> 0, lat |-> Num(0)]
    ELSE IF GeomArea2(polygon, 1) = 0 THEN [k |-> "km2", area2 |-> 0, lat |-> Num(0)]
    ELSE [k |-> "km2", area2 |-> GeomArea2(polygon, 1), lat |-> mean_latitude]

NoGeoJson == [type |-> "None", coordinates |-> <<>>]

\* hull_to_geojson: the exterior of a Polygon, None for anything else
hull_to_geojson(hull) ==
    IF hull.geom_type = "Polygon"
    THEN [type |-> "Polygon", coordinates |-> <<hull.polys[1].exterior>>]
    ELSE NoGeoJson

\* ---------------------------------------------------- app.py: MCP home range
\* MeanLat taking the latitude of the first fix
MeanLat_First(f) ==
    IF Len(f.rows) = 0 THEN NaN ELSE Num(f.rows[1][A_LAT])

\* df['location_lat'].mean()
MeanLat(f) ==
    IF Len(f.rows) = 0 THEN NaN
    ELSE Fin(SumSeq([i \in 1..Len(f.rows) |-> f.rows[i][A_LAT]], 1), Len(f.rows))

NoMcp ==
    [area_100 |-> [k |-> "nan", area2 |-> 0, lat |-> Num(0)],
     hull_100 |-> NoGeoJson, levels |-> {}]

\* int(n_points * (percent / 100))
SampleSize(n_points, percent) == (n_points * percent) \div 100

\* The entries the loop over percent_levels can add from position i on:
\* every draw of np.random.choice(range(n_points), sample_size,
\* replace=False) for each level below 100 with at least 3 sampled points.
RECURSIVE SampledLevels(_, _, _)
SampledLevels(f, percent_levels, i) ==
    IF i > Len(percent_levels) THEN {{}}
    ELSE LET percent == percent_levels[i]
             n_points == Len(f.rows)
             sample_size == SampleSize(n_points, percent)
             rest == SampledLevels(f, percent_levels, i + 1)
             LevelEntry(random_indices) ==
                LET sampled_hull ==
                       convex_hull({<<f.rows[j][A_LONG], f.rows[j][A_LAT]>> :
                                      j \in random_indices})
                IN  [percent |-> percent,
                     area |-> calculate_area_km2(sampled_hull, MeanLat(f)),
                     hull |-> hull_to_geojson(sampled_hull)]
         IN  IF percent = 100 \/ sample_size < 3 THEN rest
             ELSE { {LevelEntry(random_indices)} \cup {e \in r : e.percent # percent} :
                      random_indices \in {I \in SUBSET (1..n_points) :
                                            Cardinality(I) = sample_size},
                      r \in rest }

\* calculate_single_mcp taking the 100% hull of the first three fixes only
calculate_single_mcp_FirstThree(f, percent_levels) ==
    IF \E i \in 1..Len(f.rows) : Malformed \in {f.rows[i][A_LONG], f.rows[i][A_LAT]}
    THEN {Raise("TypeError", NoMcp, f)}
    ELSE LET points == {<<f.rows[i][A_LONG], f.rows[i][A_LAT]>> :
                           i \in 1..(IF Len(f.rows) < 3 THEN Len(f.rows) ELSE 3)}
             hull == convex_hull(points)
         IN  { Ok([area_100 |-> calculate_area_km2(hull, MeanLat(f)),
                   hull_100 |-> hull_to_geojson(hull),
                   levels |-> lv], f) :
                 lv \in SampledLevels(f, percent_levels, 1) }

\* calculate_single_mcp: Point(lon, lat) raises on a cell that is no number.
calculate_single_mcp(f, percent_levels) ==
    IF \E i \in 1..Len(f.rows) : Malformed \in {f.rows[i][A_LONG], f.rows[i][A_LAT]}
    THEN {Raise("TypeError", NoMcp, f)}
    ELSE LET points == {<<f.rows[i][A_LONG], f.rows[i][A_LAT]>> : i \in 1..Len(f.rows)}
             hull == convex_hull(points)
         IN  { Ok([area_100 |-> calculate_area_km2(hull, MeanLat(f)),
                   hull_100 |-> hull_to_geojson(hull),
                   levels |-> lv], f) :
                 lv \in SampledLevels(f, percent_levels, 1) }
\* ------------------------------------------------- inputs: MCP of one track
\* Longest track handed to calculate_single_mcp.
MaxHullRows == 4

\* The corners of the unit square and <<2, 2>>: <<1, 1>> lies inside the
\* triangle <<1, 0>>, <<0, 1>>, <<2, 2>> and on an edge of <<0, 0>>, <<1, 0>>,
\* <<2, 2>>.
HullPoints == {<<0, 0>>, <<1, 0>>, <<0, 1>>, <<1, 1>>, <<2, 2>>}

HullRows == { (A_LONG :> q[1]) @@ (A_LAT :> q[2]) : q \in HullPoints }

InitHull ==
    /\ df \in FramesUpTo({A_LAT, A_LONG}, HullRows, MaxHullRows)
    /\ call = NoCall
    /\ result = Ok(NoMcp, df)

McpLevelInputs == {<<50, 95>>, <<75, 100>>, <<100>>}

CallSingleMcp ==
    /\ call.fn = "none"
    /\ \E percent_levels \in McpLevelInputs :
          /\ call' = [fn |-> "calculate_single_mcp", percent_levels |-> percent_levels]
          /\ result' \in calculate_single_mcp(df, percent_levels)
    /\ df' = result'.arg

SpecHull == InitHull /\ [][CallSingleMcp]_vars

\* ----------------------------------------------------- claims: MCP at 100%
Fixes(f) == {<<f.rows[i][A_LONG], f.rows[i][A_LAT]>> : i \in 1..Len(f.rows)}

\* p lies inside or on the convex polygon with the closed ring r
InsideRing(q, r) ==
    \/ \A i \in 1..(Len(r) - 1) : Orient(r[i], r[i + 1], q) <= 0
    \/ \A i \in 1..(Len(r) - 1) : Orient(r[i], r[i + 1], q) >= 0

ListedWithout100(percent_levels) ==
    LET keep == AscSeq({i \in 1..Len(percent_levels) : percent_levels[i] # 100})
    IN  [j \in 1..Len(keep) |-> percent_levels[keep[j]]]

UnitSquare == {<<0, 0>>, <<1, 0>>, <<1, 1>>, <<0, 1>>}

\* The part of the claim that does not name the area of the unit square: on
\* a track with 3 non-collinear fixes the 100% boundary is one closed ring
\* whose vertices are fixes, that holds every fix, with the area
\* planar area * 111.32^2 * cos(mean latitude); the entry does not depend
\* on 100 being listed.
HullIsConvexHull ==
    (call.fn = "calculate_single_mcp" /\ ~result.raised /\ ~Collinear(Fixes(df))) =>
        LET h == result.ret.hull_100
            ring == h.coordinates[1]
        IN  /\ h.type = "Polygon" /\ Len(h.coordinates) = 1
            /\ ring[1] = ring[Len(ring)]
            /\ {ring[i] : i \in 1..Len(ring)} \subseteq Fixes(df)
            /\ \A q \in Fixes(df) : InsideRing(q, ring)
            /\ \A i \in 1..(Len(ring) - 1) : \A j \in 1..(Len(ring) - 1) :
                    i # j => ring[i] # ring[j]
            /\ result.ret.area_100 =
                  [k |-> "km2", area2 |-> Abs(Shoelace(ring, 1)),
                   lat |-> Fin(SumSeq([i \in 1..Len(df.rows) |-> df.rows[i][A_LAT]], 1),
                               Len(df.rows))]
            /\ ListedWithout100(call.percent_levels) # call.percent_levels =>
                  calculate_single_mcp(df, call.percent_levels)
                     = calculate_single_mcp(df, ListedWithout100(call.percent_levels))

\* C15 (as stated): MCP at 100% is the convex hull of all fixes with area
\* planar area * 111.32^2 * cos(mean latitude); for the four corners of the
\* unit-degree square at the equator the boundary has 4 unique vertices and
\* the area is 111.32^2 km2; the entry is produced whether or not 100 is
\* listed.
C15_McpFullHull ==
    /\ HullIsConvexHull
    /\ (call.fn = "calculate_single_mcp" /\ Fixes(df) = UnitSquare /\ Len(df.rows) = 4) =>
          /\ Cardinality({result.ret.hull_100.coordinates[1][i] :
                            i \in 1..Len(result.ret.hull_100.coordinates[1])}) = 4
          /\ result.ret.area_100 = [k |-> "km2", area2 |-> 2, lat |-> Num(0)]

\* C15 (amended): as stated, but the area of the unit square with latitudes
\* 0, 0, 1, 1 is 111.32^2 * cos(0.5 degrees) km2, its mean latitude being
\* half a degree.
C15_McpFullHullAmended ==
    /\ HullIsConvexHull
    /\ (call.fn = "calculate_single_mcp" /\ Fixes(df) = UnitSquare /\ Len(df.rows) = 4) =>
          /\ Cardinality({result.ret.hull_100.coordinates[1][i] :
                            i \in 1..Len(result.ret.hull_100.coordinates[1])}) = 4
          /\ result.ret.area_100 = [k |-> "km2", area2 |-> 2, lat |-> Fin(1, 2)]

\* C15 witness: the unit square has been measured, with 100 listed.
C15_Witness ==
    /\ call.fn = "calculate_single_mcp" /\ ~result.raised
    /\ Fixes(df) = UnitSquare /\ Len(df.rows) = 4
    /\ call.percent_levels = <<75, 100>>
    /\ result.ret.hull_100.type = "Polygon"
    /\ Len(result.ret.hull_100.coordinates[1]) = 5
    /\ \E e \in result.ret.levels : e.percent = 75
\* ------------------------------------- app.py: home range of a set of tracks
\* The estimate of one track by KDE, BBMM or T-LoCoH is a function of the
\* fixes and of the parameters handed to scipy and skimage; it is carried as
\* that tuple.  An entry is what the result dictionary holds for one track:
\* "error" is the value of its error key ("" when the key is absent).
NoEstimate == [method |-> "", fixes |-> <<>>, percent_levels |-> <<>>, grid_size |-> 0,
               smoothing_factor |-> 0]

Estimate(method, f, percent_levels, grid_size, smoothing_factor) ==
    [method |-> method, fixes |-> f.rows, percent_levels |-> percent_levels,
     grid_size |-> grid_size, smoothing_factor |-> smoothing_factor]

Entry(error, mcp, estimate) == [error |-> error, mcp |-> mcp, estimate |-> estimate]

HasMalformed(f) ==
    \E i \in 1..Len(f.rows) : Malformed \in {f.rows[i][A_LONG], f.rows[i][A_LAT]}

\* pd.read_json(..., orient='split'): the rows with their index labels
\* 0, 1, ..., which the boolean filters keep.
Labelled(f) == Frame(f.columns, [i \in 1..Len(f.rows) |-> RowWith(f.rows[i], "index", i - 1)])

\* df['individual_id'].unique(), in the order of first appearance
RECURSIVE UniqueIds(_, _, _)
UniqueIds(rows, i, seen) ==
    IF i > Len(rows) THEN <<>>
    ELSE IF rows[i][A_IND] \in seen THEN UniqueIds(rows, i + 1, seen)
    ELSE <<rows[i][A_IND]>> \o UniqueIds(rows, i + 1, seen \cup {rows[i][A_IND]})

\* df[df['individual_id'] == individual]
IndDf(f, individual) == Frame(f.columns, RowsWhere(f.rows, A_IND, individual))

\* calculate_single_kde: x.min() raises on an empty or non-numeric array,
\* gaussian_kde on a single point or a singular covariance (collinear
\* points); every exception becomes the error entry.
calculate_single_kde(f, percent_levels, grid_size, smoothing_factor) ==
    IF Len(f.rows) = 0 \/ HasMalformed(f) THEN Entry("ValueError", NoMcp, NoEstimate)
    ELSE IF Len(f.rows) < 2 \/ Collinear(Fixes(f))
         THEN Entry("LinAlgError", NoMcp, NoEstimate)
    ELSE Entry("", NoMcp, Estimate("kde", f, percent_levels, grid_size, smoothing_factor))

\* calculate_single_bbmm: weights is a Series indexed by the labels of the
\* frame, so weights[i+1] for i in range(len(x) - 1) looks the label i + 1
\* up and raises KeyError when the track does not hold it.
calculate_single_bbmm(f, percent_levels, grid_size) ==
    LET labels == {f.rows[i]["index"] : i \in 1..Len(f.rows)}
    IN  IF Len(f.rows) = 0 THEN Entry("IndexError", NoMcp, NoEstimate)
        ELSE IF HasMalformed(f) THEN Entry("TypeError", NoMcp, NoEstimate)
        ELSE IF ~ (1..(Len(f.rows) - 1) \subseteq labels)
             THEN Entry("KeyError", NoMcp, NoEstimate)
        ELSE Entry("", NoMcp, Estimate("bbmm", f, percent_levels, grid_size, 0))

\* calculate_single_locoht: fewer than 5 points is the error entry; cdist
\* raises on a non-numeric cell, ConvexHull on collinear neighbours.
calculate_single_locoht(f, percent_levels) ==
    IF Len(f.rows) < 5 THEN Entry("Not enough points for T-LoCoH analysis", NoMcp, NoEstimate)
    ELSE IF HasMalformed(f) THEN Entry("ValueError", NoMcp, NoEstimate)
    ELSE IF Collinear(Fixes(f)) THEN Entry("QhullError", NoMcp, NoEstimate)
    ELSE Entry("", NoMcp, Estimate("locoht", f, percent_levels, 0, 0))

\* The result of one calculate_*_home_range: the entries by individual, or
\* the entry of the whole frame under "all" when there is no individual_id.
NoBatch == [by_individual |-> FALSE, keys |-> {}, entries |-> [k \in {} |-> 0]]

\* The ways to pick one outcome for each individual of ids from position i.
RECURSIVE McpBatch(_, _, _, _)
McpBatch(f, percent_levels, ids, i) ==
    IF i > Len(ids) THEN {[raised |-> FALSE, entries |-> [k \in {} |-> 0]]}
    ELSE LET heads == calculate_single_mcp(IndDf(f, ids[i]), percent_levels)
             tails == McpBatch(f, percent_levels, ids, i + 1)
         IN  { IF h.raised THEN [raised |-> TRUE, entries |-> [k \in {} |-> 0]]
               ELSE IF t.raised THEN t
               ELSE [raised |-> FALSE,
                     entries |-> (ids[i] :> Entry("", h.ret, NoEstimate)) @@ t.entries] :
                 h \in heads, t \in tails }

\* calculate_mcp_home_range: no exception of calculate_single_mcp is caught.
calculate_mcp_home_range(f, percent_levels) ==
    IF A_IND \in f.columns
    THEN LET ids == UniqueIds(f.rows, 1, {})
         IN  { IF b.raised THEN Raise("TypeError", NoBatch, f)
               ELSE Ok([by_individual |-> TRUE, keys |-> DOMAIN b.entries,
                        entries |-> b.entries], f) :
                 b \in McpBatch(f, percent_levels, ids, 1) }
    ELSE { IF o.raised THEN Raise(o.err, NoBatch, f)
           ELSE Ok([by_individual |-> FALSE, keys |-> {"all"},
                    entries |-> ("all" :> Entry("", o.ret, NoEstimate))], f) :
             o \in calculate_single_mcp(f, percent_levels) }

\* calculate_kde_home_range
calculate_kde_home_range(f, percent_levels, grid_size, smoothing_factor) ==
    IF A_IND \in f.columns
    THEN LET ids == UniqueIds(f.rows, 1, {})
             keys == {ids[i] : i \in 1..Len(ids)}
         IN  {Ok([by_individual |-> TRUE, keys |-> keys,
                  entries |-> [k \in keys |->
                                 calculate_single_kde(IndDf(f, k), percent_levels,
                                                      grid_size, smoothing_factor)]], f)}
    ELSE {Ok([by_individual |-> FALSE, keys |-> {"all"},
              entries |-> ("all" :> calculate_single_kde(f, percent_levels, grid_size,
                                                         smoothing_factor))], f)}

\* calculate_bbmm_home_range: nothing at all without a timestamp column
calculate_bbmm_home_range(f, percent_levels, grid_size) ==
    IF TS \notin f.columns
    THEN {Ok([by_individual |-> A_IND \in f.columns, keys |-> {},
              entries |-> [k \in {} |-> 0]], f)}
    ELSE IF A_IND \in f.columns
    THEN LET ids == UniqueIds(f.rows, 1, {})
             keys == {ids[i] : i \in 1..Len(ids)}
         IN  {Ok([by_individual |-> TRUE, keys |-> keys,
                  entries |-> [k \in keys |->
                                 calculate_single_bbmm(IndDf(f, k), percent_levels,
                                                       grid_size)]], f)}
    ELSE {Ok([by_individual |-> FALSE, keys |-> {"all"},
              entries |-> ("all" :> calculate_single_bbmm(f, percent_levels, grid_size))], f)}

\* calculate_locoht_home_range
calculate_locoht_home_range(f, percent_levels) ==
    IF A_IND \in f.columns
    THEN LET ids == UniqueIds(f.rows, 1, {})
             keys == {ids[i] : i \in 1..Len(ids)}
         IN  {Ok([by_individual |-> TRUE, keys |-> keys,
                  entries |-> [k \in keys |->
                                 calculate_single_locoht(IndDf(f, k), percent_levels)]], f)}
    ELSE {Ok([by_individual |-> FALSE, keys |-> {"all"},
              entries |-> ("all" :> calculate_single_locoht(f, percent_levels))], f)}

\* What the callback returns: the error key of the top level ("" when
\* absent), the method keys present and the result under the method key.
HomeRange(error, methods, batch) == [error |-> error, methods |-> methods, batch |-> batch]

\* df[df['individual_id'].isin(selected_individuals)]
RowsAmong(f, selected_individuals) ==
    LET keep == AscSeq({i \in 1..Len(f.rows) : f.rows[i][A_IND] \in selected_individuals})
    IN  Frame(f.columns, [j \in 1..Len(keep) |-> f.rows[keep[j]]])

\* The callback calculate_home_range of app.py.  An unset control is "" for
\* the method, <<>> for the levels and 0 for the numbers.
calculate_home_range(movement_data, method, percent_levels, grid_size, smoothing_factor, selected_individuals) ==
    LET m == IF method = "" THEN "mcp" ELSE method
        levels == IF percent_levels = <<>> THEN <<50, 95>> ELSE percent_levels
        grid == IF grid_size = 0 THEN 100 ELSE grid_size
        smoothing == IF smoothing_factor = 0 THEN 1 ELSE smoothing_factor
        read == Labelled(movement_data)
        f == IF selected_individuals # {} /\ A_IND \in read.columns
             THEN RowsAmong(read, selected_individuals) ELSE read
        outcomes ==
            CASE m = "mcp" -> calculate_mcp_home_range(f, levels)
              [] m = "kde" -> calculate_kde_home_range(f, levels, grid, smoothing)
              [] m = "bbmm" -> calculate_bbmm_home_range(f, levels, grid)
              [] m = "locoht" -> calculate_locoht_home_range(f, levels)
              [] OTHER -> {}
    IN  IF movement_data = NoFrame THEN {Ok(HomeRange("", {}, NoBatch), movement_data)}
        ELSE IF A_LAT \notin read.columns \/ A_LONG \notin read.columns
             THEN {Ok(HomeRange("", {}, NoBatch), movement_data)}
        ELSE IF m \notin {"mcp", "kde", "bbmm", "locoht"}
             THEN {Ok(HomeRange("", {}, NoBatch), movement_data)}
        ELSE { IF o.raised THEN Ok(HomeRange(o.err, {}, NoBatch), movement_data)
               ELSE Ok(HomeRange("", {m}, o.ret), movement_data) : o \in outcomes }
\* ------------------------------------------ inputs of the home range callback
\* Longest frame in the store when the home range callback fires.
MaxBatchRows == 4

BatchColumns ==
    { {A_IND, A_LAT, A_LONG, TS}, {A_LAT, A_LONG, TS}, {A_LAT, A_LONG}, {A_IND, A_LONG, TS} }

\* Fixes on the corners of the unit square, and fixes whose latitude cell
\* holds no number.
BatchRows(cols) ==
    { Restrict((A_IND :> i) @@ (TS :> 0) @@ (A_LAT :> q[2]) @@ (A_LONG :> q[1]), cols) :
        i \in Ids, q \in UnitSquare \cup {<<0, Malformed>>} }

InitHome ==
    /\ \/ \E cols \in BatchColumns : df \in FramesUpTo(cols, BatchRows(cols), MaxBatchRows)
       \/ df = NoFrame
    /\ call = NoCall
    /\ result = Ok(HomeRange("", {}, NoBatch), df)

\* The control values the callback is fired with.
HomeRangeInputs ==
    { [method |-> "", percent_levels |-> <<>>, selected_individuals |-> {}],
      [method |-> "mcp", percent_levels |-> <<75, 100>>, selected_individuals |-> {}],
      [method |-> "mcp", percent_levels |-> <<>>, selected_individuals |-> {"a"}],
      [method |-> "kde", percent_levels |-> <<>>, selected_individuals |-> {}],
      [method |-> "bbmm", percent_levels |-> <<>>, selected_individuals |-> {}],
      [method |-> "locoht", percent_levels |-> <<>>, selected_individuals |-> {}],
      [method |-> "hull", percent_levels |-> <<>>, selected_individuals |-> {}] }

CallHomeRange ==
    /\ call.fn = "none"
    /\ df = NoFrame \/ IsAppFrame(df)
    /\ \E in \in HomeRangeInputs :
          /\ call' = [fn |-> "calculate_home_range",
                      method |-> IF in.method = "" THEN "mcp" ELSE in.method,
                      given |-> in.method # "",
                      percent_levels |-> IF in.percent_levels = <<>> THEN <<50, 95>>
                                         ELSE in.percent_levels,
                      selected_individuals |-> in.selected_individuals]
          /\ result' \in calculate_home_range(df, in.method, in.percent_levels, 0, 0,
                                              in.selected_individuals)
    /\ UNCHANGED df

SpecHome == InitHome /\ [][CallHomeRange]_vars

\* ------------------------------------------------ claims: home range batches
\* The track of one individual as the callback hands it to the estimator.
TrackOf(individual) ==
    LET read == Labelled(df)
        f == IF call.selected_individuals # {} /\ A_IND \in read.columns
             THEN RowsAmong(read, call.selected_individuals) ELSE read
    IN  IF A_IND \in df.columns THEN IndDf(f, individual) ELSE f

\* The individuals the callback is asked about.
Batch ==
    IF A_IND \notin df.columns THEN {"all"}
    ELSE {df.rows[i][A_IND] : i \in {j \in 1..Len(df.rows) :
             call.selected_individuals = {} \/ df.rows[j][A_IND] \in call.selected_individuals}}

\* The estimator fails on the track: a cell holds no number.
Fails(individual) == HasMalformed(TrackOf(individual))

\* C13: in a multi-individual home range call, a failure while computing
\* one individual yields an entry for that individual carrying an error
\* field, and every other individual still receives its normal result; the
\* failure never replaces the result of the batch.
C13_FailureStaysLocal ==
    (call.fn = "calculate_home_range" /\ A_IND \in df.columns
     /\ A_LAT \in df.columns /\ A_LONG \in df.columns
     /\ call.method \in {"mcp", "kde", "locoht"}
     /\ Cardinality(Batch) >= 2
     /\ \E k \in Batch : Fails(k)) =>
        /\ result.ret.error = ""
        /\ call.method \in result.ret.methods
        /\ \A k \in Batch :
              /\ k \in result.ret.batch.keys
              /\ Fails(k) => result.ret.batch.entries[k].error # ""
              /\ (~Fails(k) /\ call.method = "mcp") =>
                    \E o \in calculate_single_mcp(TrackOf(k), call.percent_levels) :
                        result.ret.batch.entries[k] = Entry("", o.ret, NoEstimate)

\* The fewest fixes each method is documented to need.
MinimumPoints(method) ==
    CASE method = "mcp" -> 3
      [] method \in {"kde", "bbmm"} -> 10
      [] OTHER -> 5

\* C14: a track with fewer fixes than the minimum of the method (3 for MCP,
\* 10 for KDE and BBMM, 5 for T-LoCoH) gives, without an exception, an entry
\* that carries an error and neither an area nor a boundary; a track of one
\* fix gives an error entry with every method.
C14_BelowMinimumIsError ==
    (call.fn = "calculate_home_range"
     /\ A_LAT \in df.columns /\ A_LONG \in df.columns
     /\ call.method \in {"mcp", "kde", "bbmm", "locoht"}
     /\ (call.method = "bbmm" => TS \in df.columns)) =>
        /\ ~result.raised
        /\ result.ret.error = ""
        /\ \A k \in Batch :
              (/\ Len(TrackOf(k).rows) >= 1
               /\ Len(TrackOf(k).rows) < MinimumPoints(call.method)
               /\ ~Fails(k)) =>
                 /\ k \in result.ret.batch.keys
                 /\ result.ret.batch.entries[k].error # ""
                 /\ result.ret.batch.entries[k].mcp = NoMcp
                 /\ result.ret.batch.entries[k].estimate = NoEstimate

\* C19: the home range dispatcher estimates with mcp when no method is
\* given, and for a method it does not know, as on every failure, it
\* returns a value and raises nothing to its caller.
C19_DispatcherNeverRaises ==
    call.fn = "analysis.calculate_home_range" =>
        /\ ~call.given => call.method = "mcp"
        /\ ~result.raised

\* C17: no analysis operation changes the track it is given: when
\* calculate_daily_distance, calculate_speed_metrics or
\* calculate_activity_patterns returns, the frame of the caller has the
\* columns, the row order and the values it had before the call.
C17_InputNotMutated ==
    call.fn \in {"calculate_daily_distance", "calculate_speed_metrics",
                 "calculate_activity_patterns"} =>
        result.arg = df

\* ------------------------------------------------- app.py: geometry to GeoJSON
\* The rings of one polygon as the codec lists them: list(exterior.coords)
\* followed by list(interior.coords) for each interior.
RingsOf(polygon) == <<polygon.exterior>> \o polygon.interiors

\* contour_to_geojson that forgets the interiors
contour_to_geojson_NoHoles(contour) ==
    IF contour.geom_type = "Polygon"
    THEN [type |-> "Polygon", coordinates |-> <<contour.polys[1].exterior>>]
    ELSE IF contour.geom_type = "MultiPolygon"
    THEN [type |-> "MultiPolygon",
          coordinates |-> [i \in 1..Len(contour.polys) |-> <<contour.polys[i].exterior>>]]
    ELSE NoGeoJson

\* contour_to_geojson: a Polygon gives its rings, a MultiPolygon the rings
\* of each of its polygons, anything else None
contour_to_geojson(contour) ==
    IF contour.geom_type = "Polygon"
    THEN [type |-> "Polygon", coordinates |-> RingsOf(contour.polys[1])]
    ELSE IF contour.geom_type = "MultiPolygon"
    THEN [type |-> "MultiPolygon",
          coordinates |-> [i \in 1..Len(contour.polys) |-> RingsOf(contour.polys[i])]]
    ELSE NoGeoJson

\* The geometries handed to contour_to_geojson: MultiPolygon(polygons) of
\* the contour lines (calculate_single_kde, calculate_single_bbmm) and
\* unary_union(included_hulls) (calculate_single_locoht), which is a
\* Polygon, with or without holes, or a MultiPolygon.
OuterShell == <<<<0, 0>>, <<4, 0>>, <<4, 4>>, <<0, 4>>>>
FarShell == <<<<5, 5>>, <<6, 5>>, <<5, 6>>, <<5, 5>>>>
HoleA == <<<<1, 1>>, <<1, 2>>, <<2, 1>>>>
HoleB == <<<<2, 2>>, <<3, 3>>, <<3, 2>>, <<2, 2>>>>

ContourPolygons ==
    { Polygon(shell, holes) :
        shell \in {OuterShell},
        holes \in {<<>>, <<HoleA>>, <<HoleB>>, <<HoleA, HoleB>>, <<HoleB, HoleA>>} }
    \cup {Polygon(FarShell, <<>>)}

ContourGeometries ==
    {Geometry("Polygon", <<q>>) : q \in ContourPolygons}
    \cup {Geometry("MultiPolygon", <<q>>) : q \in ContourPolygons}
    \cup {Geometry("MultiPolygon", <<q, Polygon(FarShell, <<>>)>>) :
             q \in ContourPolygons \ {Polygon(FarShell, <<>>)}}
    \cup {Geometry("MultiPolygon", <<Polygon(FarShell, <<>>), q>>) :
             q \in ContourPolygons \ {Polygon(FarShell, <<>>)}}
    \cup {Geometry("GeometryCollection", <<>>)}

\* hull_to_geojson on the convex hull of the fixes of the frame, as
\* calculate_single_mcp calls it
CallHullToGeojson ==
    /\ call.fn = "none"
    /\ call' = [fn |-> "hull_to_geojson", geometry |-> convex_hull(Fixes(df))]
    /\ result' = Ok(hull_to_geojson(convex_hull(Fixes(df))), df)
    /\ UNCHANGED df

CallContourToGeojson ==
    /\ call.fn = "none"
    /\ \E contour \in ContourGeometries :
          /\ call' = [fn |-> "contour_to_geojson", geometry |-> contour]
          /\ result' = Ok(contour_to_geojson(contour), df)
    /\ UNCHANGED df

NextCodec == CallHullToGeojson \/ CallContourToGeojson

SpecCodec == InitHull /\ [][NextCodec]_vars

\* The rings are closed: the first coordinate of each is its last.
AllClosed(rings) == \A j \in 1..Len(rings) : rings[j][1] = rings[j][Len(rings[j])]

\* C18: the codec emits type Polygon for a polygon and MultiPolygon for a
\* multi-polygon; for each polygon the first ring is the exterior and the
\* next ones are its holes in their order, every ring ends on its first
\* coordinate, and each ring has the coordinates of the input geometry in
\* the same order.
C18_CodecKeepsRings ==
    call.fn \in {"hull_to_geojson", "contour_to_geojson"} =>
        LET g == call.geometry
            out == result.ret
        IN  /\ ~result.raised
            /\ g.geom_type = "Polygon" =>
                  /\ out.type = "Polygon"
                  /\ Len(out.coordinates) = 1 + Len(g.polys[1].interiors)
                  /\ out.coordinates[1] = g.polys[1].exterior
                  /\ \A j \in 1..Len(g.polys[1].interiors) :
                        out.coordinates[1 + j] = g.polys[1].interiors[j]
                  /\ AllClosed(out.coordinates)
            /\ (g.geom_type = "MultiPolygon" /\ call.fn = "contour_to_geojson") =>
                  /\ out.type = "MultiPolygon"
                  /\ Len(out.coordinates) = Len(g.polys)
                  /\ \A i \in 1..Len(g.polys) :
                        /\ Len(out.coordinates[i]) = 1 + Len(g.polys[i].interiors)
                        /\ out.coordinates[i][1] = g.polys[i].exterior
                        /\ \A j \in 1..Len(g.polys[i].interiors) :
                              out.coordinates[i][1 + j] = g.polys[i].interiors[j]
                        /\ AllClosed(out.coordinates[i])

\* A multi-polygon whose first polygon has two holes has been encoded.
C18_Witness ==
    /\ call.fn = "contour_to_geojson"
    /\ call.geometry = Geometry("MultiPolygon",
            <<Polygon(OuterShell, <<HoleB, HoleA>>), Polygon(FarShell, <<>>)>>)
    /\ result.ret.type = "MultiPolygon"
    /\ Len(result.ret.coordinates[1]) = 3
    /\ result.ret.coordinates[1][2] = HoleB

\* ------------------------------------------------- every component, run again
\* The components on the frames of their callers: the analysis.py functions,
\* the activity and data quality callbacks, calculate_single_mcp and the home
\* range callback on the track handed to calculate_single_mcp.
NextRerun ==
    \/ NextTrack
    \/ NextQuality
    \/ ({A_LAT, A_LONG} \subseteq df.columns /\ CallSingleMcp)
    \/ CallHomeRange

\* numpy orders rows of equal timestamp by a fixed algorithm, so a second
\* run orders them as the first did; the model leaves that order open, and
\* two of its outcomes can be told apart only on frames without such rows.
DistinctTimes(f) ==
    TS \notin f.columns
    \/ \A i, j \in 1..Len(f.rows) : f.rows[i][TS] = f.rows[j][TS] => i = j

\* Tracks on the corners of the unit square for the home range estimators.
InitSquare ==
    /\ df \in FramesUpTo({A_LAT, A_LONG},
                          {(A_LONG :> q[1]) @@ (A_LAT :> q[2]) : q \in UnitSquare},
                          MaxHullRows)
    /\ call = NoCall
    /\ result = Ok(NoMcp, df)

InitRerun == (InitTrack \/ InitActivity \/ InitQuality \/ InitSquare) /\ DistinctTimes(df)

SpecRerun == InitRerun /\ [][NextRerun]_vars

\* Every outcome the call of the state can have when it is made again on
\* the same frame with the same arguments.
Outcomes ==
    CASE call.fn = "calculate_distances" -> calculate_distances(df)
      [] call.fn = "calculate_daily_distance" ->
            calculate_daily_distance(df, call.by_individual)
      [] call.fn = "calculate_speed_metrics" -> calculate_speed_metrics(df)
      [] call.fn = "calculate_activity_patterns" ->
            calculate_activity_patterns(df, call.activity_threshold, call.time_window,
                                        call.selected_individuals)
      [] call.fn = "calculate_data_quality" ->
            calculate_data_quality(df, Num(call.rate), call.selected_individual)
      [] call.fn = "calculate_fix_success" ->
            calculate_fix_success(df, call.expected_frequency)
      [] call.fn = "calculate_single_mcp" -> calculate_single_mcp(df, call.percent_levels)
      [] call.fn = "calculate_home_range" ->
            calculate_home_range(df, IF call.given THEN call.method ELSE "",
                                 call.percent_levels, 0, 0, call.selected_individuals)
      [] OTHER -> {result}

\* Likewise value_counts().idxmax() picks among gaps of equal count by a
\* fixed algorithm; the model leaves the pick open, so its outcomes are
\* compared when every group has a single most frequent gap.
SingleMode(f) ==
    \A j \in 1..Len(FixGroups(f)) :
        Len(FixGroups(f)[j].frame.rows) >= 2 =>
            Cardinality(Modes(GapsOf(FixGroups(f)[j].frame))) = 1

\* The part of an MCP result that is not drawn at random.
Level100(mcp) == [area_100 |-> mcp.area_100, hull_100 |-> mcp.hull_100]

\* Two outcomes of the same call agree, the sub-100% levels of MCP aside.
SameOutput(o1, o2) ==
    IF call.fn = "calculate_single_mcp"
    THEN /\ o1.raised = o2.raised /\ o1.err = o2.err /\ o1.arg = o2.arg
         /\ Level100(o1.ret) = Level100(o2.ret)
    ELSE IF call.fn = "calculate_home_range" /\ call.method = "mcp"
    THEN /\ o1.raised = o2.raised /\ o1.arg = o2.arg
         /\ o1.ret.error = o2.ret.error /\ o1.ret.methods = o2.ret.methods
         /\ o1.ret.batch.keys = o2.ret.batch.keys
         /\ \A k \in o1.ret.batch.keys :
               /\ o1.ret.batch.entries[k].error = o2.ret.batch.entries[k].error
               /\ Level100(o1.ret.batch.entries[k].mcp)
                    = Level100(o2.ret.batch.entries[k].mcp)
    ELSE o1 = o2

GridSize == 4

Cells == (1..GridSize) \X (1..GridSize)

\* np.sort(kde.flatten())[::-1]
RECURSIVE DescSeq(_, _)
DescSeq(kde, cells) ==
    IF cells = {} THEN <<>>
    ELSE LET c == CHOOSE x \in cells : \A y \in cells : kde[y] <= kde[x]
         IN  <<kde[c]>> \o DescSeq(kde, cells \ {c})

kde_sorted(kde) == DescSeq(kde, Cells)

\* np.cumsum(kde_sorted)[i]
CumSum(sorted, i) == SumSeq(SubSeq(sorted, 1, i), 1)

\* np.argmin(np.abs(cumsum - percent / 100)) on the normalised cumsum: the
\* first index of least distance (positions counted from 1).
LevelIndex(kde, percent) ==
    LET sorted == kde_sorted(kde)
        total == CumSum(sorted, Len(sorted))
        Dist(i) == Abs(100 * CumSum(sorted, i) - percent * total)
    IN  CHOOSE i \in 1..Len(sorted) :
            \A j \in 1..Len(sorted) : Dist(i) < Dist(j) \/ (Dist(i) = Dist(j) /\ i <= j)

\* contour_level = kde_sorted[idx]
contour_level(kde, percent) == kde_sorted(kde)[LevelIndex(kde, percent)]

\* measure.find_contours(kde, contour_level): marching squares takes a cell
\* as inside when its value is strictly greater than the level.
Above(kde, level) == {c \in Cells : kde[c] > level}

SameSquare(a, b) == Abs(a[1] - b[1]) <= 1 /\ Abs(a[2] - b[2]) <= 1

\* The grids on which the contours are modelled: no cell is above the
\* level, or no two cells that are not above it are corners of one square.
Isolated(kde, level) ==
    \/ Above(kde, level) = {}
    \/ \A a, b \in Cells \ Above(kde, level) : a # b => ~SameSquare(a, b)

\* How far the contour around cell c, below the level, lies from c on the
\* edge towards the cell m: linear interpolation; no edge, no reach.
Reach(kde, level, c, m) ==
    IF m \notin Cells THEN Num(0) ELSE Fin(level - kde[c], kde[m] - kde[c])

\* The number of points of the contour around an isolated cell below the
\* level: closed (first point repeated) around an inner cell, open along
\* the border of the array.
ContourLength(c) ==
    LET edges == Cardinality({m \in Cells : Abs(m[1] - c[1]) + Abs(m[2] - c[2]) = 1})
    IN  IF edges = 4 THEN 5 ELSE edges

\* Polygon(contour).area in grid units: the quadrilateral through the
\* points on the four edges, a triangle on the border of the array.
ContourArea(kde, level, c) ==
    LET north == Reach(kde, level, c, <<c[1] - 1, c[2]>>)
        south == Reach(kde, level, c, <<c[1] + 1, c[2]>>)
        west == Reach(kde, level, c, <<c[1], c[2] - 1>>)
        east == Reach(kde, level, c, <<c[1], c[2] + 1>>)
    IN  FDiv(FMul(FAdd(north, south), FAdd(west, east)), Num(2))

RECURSIVE SumAreas(_, _, _)
SumAreas(kde, level, cells) ==
    IF cells = {} THEN Num(0)
    ELSE LET c == CHOOSE x \in cells : TRUE
         IN  FAdd(ContourArea(kde, level, c), SumAreas(kde, level, cells \ {c}))

\* One pass of the loop: a cell equal to the level gives degenerate
\* segments, which find_contours drops; each cell below it gives one
\* contour; contours of fewer than 3 points are left out, and area_<percent>
\* is written only if a polygon remains. The area is in grid units: the
\* factor to square kilometres is the same for every level of a call.
LevelResult(kde, percent) ==
    LET level == contour_level(kde, percent)
        contours == IF Above(kde, level) = {} THEN {}
                    ELSE {c \in Cells : kde[c] < level}
        polygons == {c \in contours : ContourLength(c) >= 3}
    IN  [percent |-> percent,
         level |-> level,
         present |-> polygons # {},
         area |-> SumAreas(kde, level, polygons)]

\* Densities with a dip inside the grid and two low corners, as a track
\* around a lake gives: the dip at <<3, 3>>, the corners <<1, 1>> and
\* <<1, GridSize>>, every other cell at the same height.
DensityGrids ==
    { [c \in Cells |->
          IF c = <<3, 3>> THEN dip
          ELSE IF c = <<1, 1>> THEN low
          ELSE IF c = <<1, GridSize>> THEN mid
          ELSE high] :
        dip \in 1..2, low \in 3..4, mid \in 5..6, high \in 10..12 }

ContourLevels == {90, 95, 98, 99, 100}

LevelPairs == {pq \in ContourLevels \X ContourLevels : pq[1] <= pq[2]}

InitContour ==
    /\ df = NoFrame
    /\ call = NoCall
    /\ result = Ok(<<>>, NoFrame)

CallKdeContours ==
    /\ call.fn = "none"
    /\ \E kde \in DensityGrids, percent_levels \in LevelPairs :
          /\ \A i \in 1..2 : Isolated(kde, contour_level(kde, percent_levels[i]))
          /\ call' = [fn |-> "calculate_single_kde", kde |-> kde,
                      percent_levels |-> percent_levels]
          /\ result' = Ok([i \in 1..2 |-> LevelResult(kde, percent_levels[i])], df)
    /\ UNCHANGED df

SpecContour == InitContour /\ [][CallKdeContours]_vars

\* C20: for a fixed track and grid, with levels p <= q, the density
\* threshold chosen for q is at most the one for p, the cells at or above
\* the threshold for p are among those for q, and area_p <= area_q.
C20_AreaMonotone ==
    call.fn = "calculate_single_kde" =>
        \A i, j \in 1..Len(call.percent_levels) :
            LET p == call.percent_levels[i]
                q == call.percent_levels[j]
                AtOrAbove(x) == {c \in Cells : call.kde[c] >= contour_level(call.kde, x)}
            IN  p <= q =>
                  /\ contour_level(call.kde, q) <= contour_level(call.kde, p)
                  /\ AtOrAbove(p) \subseteq AtOrAbove(q)
                  /\ (result.ret[i].present /\ result.ret[j].present) =>
                        FLe(result.ret[i].area, result.ret[j].area)

\* ----------------------------------------------- claims: MCP below 100%
\* The least integer that is at least n * percent / 100.
CeilSample(n_points, percent) == (n_points * percent + 99) \div 100

\* The boundary that hull_to_geojson gives the hull of the fixes at the
\* positions I of the frame.
BoundaryOf(f, I) ==
    hull_to_geojson(convex_hull({<<f.rows[j][A_LONG], f.rows[j][A_LAT]>> : j \in I}))

\* C22: for a level p < 100 on a track of n fixes, calculate_single_mcp
\* builds the hull from exactly ceil(n * p / 100) fixes of pairwise distinct
\* positions, and writes an area and a boundary for the level only when
\* that sample holds at least 3 fixes.
C22_SampleIsCeiling ==
    (call.fn = "calculate_single_mcp" /\ ~result.raised) =>
        \A i \in 1..Len(call.percent_levels) :
            LET percent == call.percent_levels[i]
                size == CeilSample(Len(df.rows), percent)
                written == {e \in result.ret.levels : e.percent = percent}
            IN  percent < 100 =>
                  /\ (written # {}) <=> (size >= 3)
                  /\ \A e \in written :
                        \E I \in SUBSET (1..Len(df.rows)) :
                            Cardinality(I) = size /\ e.hull = BoundaryOf(df, I)

\* C28: whatever the sample, the area reported for a level p < 100 is at
\* most area_100, and the sampled hull lies inside the 100% hull: its
\* corners are fixes of the track, none outside the 100% boundary.
C28_SampleInsideFullHull ==
    (call.fn = "calculate_single_mcp" /\ ~result.raised) =>
        \A e \in result.ret.levels :
            /\ e.percent < 100
            /\ e.area.area2 <= result.ret.area_100.area2
            /\ e.area.area2 > 0 => e.area.lat = result.ret.area_100.lat
            /\ e.hull.type = "Polygon" =>
                  /\ result.ret.hull_100.type = "Polygon"
                  /\ \A j \in 1..Len(e.hull.coordinates[1]) :
                        /\ e.hull.coordinates[1][j] \in Fixes(df)
                        /\ InsideRing(e.hull.coordinates[1][j],
                                      result.ret.hull_100.coordinates[1])

\* Three of the four corners of the unit square were drawn for the 75%
\* level: a triangle of half the area of the square.
C28_Witness ==
    /\ call.fn = "calculate_single_mcp" /\ ~result.raised
    /\ Fixes(df) = UnitSquare /\ Len(df.rows) = 4
    /\ result.ret.area_100.area2 = 2
    /\ \E e \in result.ret.levels :
          e.percent = 75 /\ e.area.area2 = 1 /\ e.hull.type = "Polygon"

\* ------------------------------------------- app.py: BBMM segment weights
\* df['time_diff'] in hours for the frame s sorted on the timestamp: the gap
\* to the row before, capped at 24 by clip(upper=24). The first row holds
\* NaN after diff(); df['time_diff'].iloc[0] = 0 is a chained assignment
\* that writes the column (written) or a temporary copy of it under pandas'
\* copy-on-write, so the cell is 0 or stays NaN according to the build.
BbmmTimeDiff(s, written) ==
    [i \in 1..Len(s.rows) |->
        IF i = 1 THEN (IF written THEN Num(0) ELSE NaN)
        ELSE LET gap == s.rows[i][TS] - s.rows[i - 1][TS]
             IN  Fin(IF gap > 24 * 60 THEN 24 * 60 ELSE gap, 60)]

\* weights = 1.0 / (df['time_diff'] + 0.1); weights / weights.sum(), the
\* sum skipping NaN
BbmmWeights(s, written) ==
    LET diff == BbmmTimeDiff(s, written)
        raw == [i \in 1..Len(diff) |-> FDiv(Num(1), FAdd(diff[i], Fin(1, 10)))]
        total == FSum([i \in 1..Len(raw) |-> IF IsNaN(raw[i]) THEN Num(0) ELSE raw[i]], 1)
    IN  [i \in 1..Len(raw) |-> FDiv(raw[i], total)]

NoWeights == [error |-> "", sorted |-> <<>>, weight |-> <<>>, bbmm_grid |-> Num(0),
              contour_level |-> Num(0)]

\* The cells of bbmm_grid when every fix of the track is at one location:
\* the extent and the buffer are zero, so every grid point is that
\* location, every distance to a segment is 0 and np.exp(0) = 1; each cell
\* of grid_values is the sum of the weights applied, and
\* grid_values / grid_values.sum() divides it by GridSize^2 times itself.
BbmmCell(weight) ==
    LET cell == FSum(weight, 1)
    IN  FDiv(cell, FMul(Num(GridSize * GridSize), cell))

\* What calculate_single_bbmm does on a track whose fixes are all at one
\* location. The weights the loop applies, segment by
\* segment: for i in range(len(x) - 1) it reads weights[i+1], and weights is
\* a Series that carries the labels of the frame, so the integer is looked
\* up among the labels; a label that is absent raises KeyError, which the
\* except clause turns into the error entry. contour_level is
\* grid_sorted[idx], a cell of the constant grid.
BbmmSegmentWeights(f) ==
    IF Len(f.rows) = 0 THEN {[NoWeights EXCEPT !.error = "IndexError"]}
    ELSE { LET w == BbmmWeights(s, written)
               labels == {s.rows[j]["index"] : j \in 1..Len(s.rows)}
               At(label) == CHOOSE j \in 1..Len(s.rows) : s.rows[j]["index"] = label
               applied == [i \in 1..(Len(s.rows) - 1) |-> w[At(i)]]
           IN  IF ~ (1..(Len(s.rows) - 1) \subseteq labels)
               THEN [NoWeights EXCEPT !.error = "KeyError", !.sorted = s.rows]
               ELSE [error |-> "", sorted |-> s.rows, weight |-> applied,
                     bbmm_grid |-> BbmmCell(applied),
                     contour_level |-> BbmmCell(applied)] :
           s \in sort_values(f, TS), written \in BOOLEAN }

\* Longest frame in the store when BBMM is asked for.
MaxBbmmRows == 3

BbmmTimes == {0, 60, 120, 26 * 60}

BbmmColumns == { {A_IND, TS, A_LAT, A_LONG}, {TS, A_LAT, A_LONG} }

BbmmRows(cols) ==
    { Restrict((A_IND :> i) @@ (TS :> t) @@ (A_LAT :> 0) @@ (A_LONG :> 0), cols) :
        i \in Ids, t \in BbmmTimes }

InitBbmm ==
    /\ \E cols \in BbmmColumns : df \in FramesUpTo(cols, BbmmRows(cols), MaxBbmmRows)
    /\ call = NoCall
    /\ result = Ok(NoWeights, df)

\* calculate_bbmm_home_range hands calculate_single_bbmm the rows of each
\* individual, or the whole frame when there is no identifier column; the
\* frame is the one pd.read_json gave, labelled 0, 1, ...
CallSingleBbmm ==
    /\ call.fn = "none"
    /\ \E individual \in IF A_IND \in df.columns
                          THEN {df.rows[i][A_IND] : i \in 1..Len(df.rows)} ELSE {"all"} :
          LET track == IF A_IND \in df.columns THEN IndDf(Labelled(df), individual)
                       ELSE Labelled(df)
          IN  /\ call' = [fn |-> "calculate_single_bbmm", individual |-> individual,
                          track |-> track]
              /\ \E r \in BbmmSegmentWeights(track) : result' = Ok(r, df)
    /\ UNCHANGED df

SpecBbmm == InitBbmm /\ [][CallSingleBbmm]_vars

\* The inverse of the time gap of segment i of the sorted rows (capped at
\* 24 h, plus 0.1).
InverseGap(rows, i) ==
    LET gap == rows[i + 1][TS] - rows[i][TS]
    IN  FDiv(Num(1), FAdd(Fin(IF gap > 24 * 60 THEN 24 * 60 ELSE gap, 60), Fin(1, 10)))

\* C24: for every row order and every labelling of the frame, a slice of a
\* larger frame included, the weight of the segment between the i-th and
\* the (i+1)-th fix in timestamp order is the inverse of the time gap of
\* that segment (capped at 24 h, plus 0.1) over the sum of these inverses
\* for all segments; the lookup of a weight never fails.
C24_SegmentOwnWeight ==
    (call.fn = "calculate_single_bbmm" /\ Len(call.track.rows) >= 2) =>
        LET rows == result.ret.sorted
            total == FSum([i \in 1..(Len(rows) - 1) |-> InverseGap(rows, i)], 1)
        IN  /\ result.ret.error = ""
            /\ Len(result.ret.weight) = Len(rows) - 1
            /\ \A i \in 1..(Len(rows) - 1) :
                  result.ret.weight[i] = FDiv(InverseGap(rows, i), total)

\* The first position of the descending values at which the normalised
\* cumulative sum is at least percent / 100.
FirstReach(kde, percent) ==
    LET sorted == kde_sorted(kde)
        total == CumSum(sorted, Len(sorted))
        reached == {i \in 1..Len(sorted) : 100 * CumSum(sorted, i) >= percent * total}
    IN  CHOOSE i \in reached : \A j \in reached : i <= j

\* C23: in calculate_single_kde and calculate_single_bbmm the threshold for
\* level p is the density at the first position of the descending values
\* where the normalised cumulative sum reaches p / 100, never at a position
\* whose cumulative mass is still below p / 100.
C23_ThresholdFirstReach ==
    call.fn = "calculate_single_kde" =>
        \A i \in 1..Len(call.percent_levels) :
            LET percent == call.percent_levels[i]
                sorted == kde_sorted(call.kde)
            IN  /\ result.ret[i].level = sorted[FirstReach(call.kde, percent)]
                /\ \E j \in 1..Len(sorted) :
                      /\ sorted[j] = result.ret[i].level
                      /\ 100 * CumSum(sorted, j) >= percent * CumSum(sorted, Len(sorted))

\* C27: on a numerically degenerate input (a single fix, all fixes at one
\* location, a density whose sum is zero) calculate_single_bbmm returns an
\* error entry or a zero result, and no NaN or infinite value is in the
\* grid or the threshold.
C27_DegenerateIsFinite ==
    (call.fn = "calculate_single_bbmm" /\ Len(call.track.rows) >= 1) =>
        \/ result.ret.error # ""
        \/ IsFinite(result.ret.bbmm_grid) /\ IsFinite(result.ret.contour_level)

\* ------------------------------------------- app.py: T-LoCoH local hulls
\* The fewest points calculate_single_locoht accepts.
MinLocohPoints == 5
\* The cap on k, the number of nearest neighbours.
MaxNeighbours == 15

\* Squared euclidean distance; cdist orders the points as its square does.
Dist2(a, b) == (a[1] - b[1]) * (a[1] - b[1]) + (a[2] - b[2]) * (a[2] - b[2])

\* np.argsort(key) over the positions in remaining: ascending, equal keys
\* in any order (the default sort is not stable).
RECURSIVE argsort(_, _)
argsort(key, remaining) ==
    IF remaining = {} THEN {<<>>}
    ELSE UNION { { <<i>> \o s : s \in argsort(key, remaining \ {i}) } :
                 i \in {j \in remaining : \A m \in remaining : key[j] <= key[m]} }

coords(f) == [i \in 1..Len(f.rows) |-> <<f.rows[i][A_LONG], f.rows[i][A_LAT]>>]

\* k = min(15, n_points - 1)
NeighbourCount(n_points) ==
    IF MaxNeighbours < n_points - 1 THEN MaxNeighbours ELSE n_points - 1

\* np.argsort(combined_matrix[i])[:k+1] on a frame without timestamp
\* column: the diagonal is np.inf, so i sorts after every other point, and
\* the slice keeps the first k + 1 positions.
neighbors_idx(f, i) ==
    LET n_points == Len(f.rows)
        row == [j \in 1..n_points |-> Dist2(coords(f)[i], coords(f)[j])]
    IN  { SubSeq(o \o <<i>>, 1, NeighbourCount(n_points) + 1) :
            o \in argsort(row, (1..n_points) \ {i}) }

\* One pass of the loop over the points: the neighbours taken and the
\* vertices of their convex hull.
LocalHullsAt(f, i) ==
    { LET taken == {nb[j] : j \in 1..Len(nb)}
      IN  [neighbors |-> taken,
           degenerate |-> Collinear({coords(f)[j] : j \in taken}),
           hull_points |-> HullVertices({coords(f)[j] : j \in taken})] :
        nb \in neighbors_idx(f, i) }

RECURSIVE LocalHullLoop(_, _)
LocalHullLoop(f, i) ==
    IF i > Len(f.rows) THEN {<<>>}
    ELSE { <<h>> \o t : h \in LocalHullsAt(f, i), t \in LocalHullLoop(f, i + 1) }

\* The local hulls of calculate_single_locoht: the error entry below 5
\* points, and when ConvexHull raises on collinear neighbours.
LocalHulls(f) ==
    IF Len(f.rows) < MinLocohPoints
    THEN {[error |-> "Not enough points for T-LoCoH analysis", hulls |-> <<>>]}
    ELSE { IF \E i \in 1..Len(hs) : hs[i].degenerate
           THEN [error |-> "QhullError", hulls |-> <<>>]
           ELSE [error |-> "", hulls |-> hs] : hs \in LocalHullLoop(f, 1) }

\* Longest track given to calculate_single_locoht.
MaxLocohRows == 5

InitLocoh ==
    /\ df \in FramesUpTo({A_LAT, A_LONG}, HullRows, MaxLocohRows)
    /\ call = NoCall
    /\ result = Ok([error |-> "", hulls |-> <<>>], df)

CallSingleLocoht ==
    /\ call.fn = "none"
    /\ call' = [fn |-> "calculate_single_locoht"]
    /\ \E r \in LocalHulls(df) : result' = Ok(r, df)
    /\ df' = df

SpecLocoh == InitLocoh /\ [][CallSingleLocoht]_vars

\* C25: on a track of at least 5 fixes every local hull is built from
\* exactly k = min(15, n - 1) other points, and the point itself is not
\* among the points the hull is built from.
C25_HullFromKOthers ==
    (call.fn = "calculate_single_locoht" /\ result.ret.error = "") =>
        \A i \in 1..Len(result.ret.hulls) :
            /\ i \notin result.ret.hulls[i].neighbors
            /\ Cardinality(result.ret.hulls[i].neighbors) = NeighbourCount(Len(df.rows))

\* --------------------------------------------- app.py: T-LoCoH isopleths
\* The local hulls of a track as sets of unit cells of a strip of the
\* plane: the area of a hull is the number of its cells, the union of
\* hulls is the union of their cells. A hull is convex, so its cells are
\* consecutive; ConvexHull raises on neighbours without area, so every
\* hull holds a cell.
MaxLocohCells == 2

LocalHullSets == {lo..hi : lo \in 1..MaxLocohCells, hi \in 1..MaxLocohCells} \ {{}}

\* hull_areas, in the order of the points
hull_areas(hulls) == [i \in 1..Len(hulls) |-> Cardinality(hulls[i])]

\* unary_union(included_hulls)
unary_union_Common(hulls, included) ==
    {c \in 1..MaxLocohCells : \A i \in included : c \in hulls[i]}

unary_union(hulls, included) == UNION {hulls[i] : i \in included}

\* The inner loop over sorted_hulls with every hull_areas[i] added in the
\* order of the points
RECURSIVE IncludeLoop_ByPoint(_, _, _, _, _)
IncludeLoop_ByPoint(areas, sorted_indices, percent, i, current_area) ==
    LET now == current_area + areas[i]
    IN  IF 100 * now >= SumSeq(areas, 1) * percent \/ i = Len(areas)
        THEN [count |-> i, current_area |-> now]
        ELSE IncludeLoop_ByPoint(areas, sorted_indices, percent, i + 1, now)

\* The inner loop over sorted_hulls: hull_areas[sorted_indices[i]] is added
\* and the hull included, until current_area >= total_area * (percent / 100)
\* or the hulls are used up.
RECURSIVE IncludeLoop(_, _, _, _, _)
IncludeLoop(areas, sorted_indices, percent, i, current_area) ==
    LET now == current_area + areas[sorted_indices[i]]
    IN  IF 100 * now >= SumSeq(areas, 1) * percent \/ i = Len(areas)
        THEN [count |-> i, current_area |-> now]
        ELSE IncludeLoop(areas, sorted_indices, percent, i + 1, now)

\* One pass of the loop over percent_levels: the hulls included, by their
\* position in hulls, and the area of their union.
Isopleth(hulls, sorted_indices, percent) ==
    LET stop == IncludeLoop(hull_areas(hulls), sorted_indices, percent, 1, 0)
        included == {sorted_indices[j] : j \in 1..stop.count}
    IN  [percent |-> percent, count |-> stop.count,
         current_area |-> stop.current_area, included |-> included,
         area |-> Cardinality(unary_union(hulls, included))]

LocohLevels == {<<20, 50, 95, 100>>}

InitIsopleth ==
    /\ df = NoFrame
    /\ call = NoCall
    /\ result = Ok([sorted_indices |-> <<>>, levels |-> <<>>], NoFrame)

\* The isopleth part of calculate_single_locoht on the local hulls of a
\* track of MinLocohPoints fixes or more.
CallIsopleths ==
    /\ call.fn = "none"
    /\ \E hulls \in [1..MinLocohPoints -> LocalHullSets], percent_levels \in LocohLevels :
          /\ call' = [fn |-> "calculate_single_locoht", hulls |-> hulls,
                      percent_levels |-> percent_levels]
          /\ \E sorted_indices \in argsort(hull_areas(hulls), 1..Len(hulls)) :
                result' = Ok([sorted_indices |-> sorted_indices,
                              levels |-> [i \in 1..Len(percent_levels) |->
                                  Isopleth(hulls, sorted_indices, percent_levels[i])]], df)
    /\ df' = df

SpecIsopleth == InitIsopleth /\ [][CallIsopleths]_vars

\* The sum of the areas of the first m hulls in the order o.
PrefixArea(o, m) == SumSeq([j \in 1..m |-> Cardinality(call.hulls[o[j]])], 1)

\* C26: the hulls included for a level p are the shortest prefix, in
\* ascending order of area, whose summed area is at least p/100 of the sum
\* of all hull areas, and the area summed for a hull is its own.
C26_ShortestPrefix ==
    call.fn = "calculate_single_locoht" =>
        LET o == result.ret.sorted_indices
            total == SumSeq(hull_areas(call.hulls), 1)
        IN  /\ \A i, j \in 1..Len(o) :
                   i < j => Cardinality(call.hulls[o[i]]) <= Cardinality(call.hulls[o[j]])
            /\ \A l \in 1..Len(result.ret.levels) :
                   LET r == result.ret.levels[l]
                   IN  /\ r.included = {o[j] : j \in 1..r.count}
                       /\ r.current_area = PrefixArea(o, r.count)
                       /\ 100 * PrefixArea(o, r.count) >= total * r.percent
                       /\ \A m \in 1..(r.count - 1) :
                              100 * PrefixArea(o, m) < total * r.percent

\* Hulls of different areas that are not listed in ascending order, and a
\* level that stops inside the list after more than one hull.
C26_Witness ==
    /\ call.fn = "calculate_single_locoht"
    /\ \E i \in 1..(Len(call.hulls) - 1) :
          Cardinality(call.hulls[i]) > Cardinality(call.hulls[i + 1])
    /\ \E l \in 1..Len(result.ret.levels) :
          /\ result.ret.levels[l].count > 1
          /\ result.ret.levels[l].count < Len(call.hulls)

\* C21: the area of the isopleth of a level is at most the area of the
\* level 100, and the hulls included for a level p are among the hulls
\* included for every level q >= p.
C21_IsoplethNested ==
    call.fn = "calculate_single_locoht" =>
        \A a, b \in 1..Len(result.ret.levels) :
            LET p == result.ret.levels[a]
                q == result.ret.levels[b]
            IN  /\ p.percent <= q.percent => p.included \subseteq q.included
                /\ q.percent = 100 => p.area <= q.area

\* Two levels where the lower one takes fewer hulls and covers less.
C21_Witness ==
    /\ call.fn = "calculate_single_locoht"
    /\ \E a, b \in 1..Len(result.ret.levels) :
          /\ result.ret.levels[b].percent = 100
          /\ result.ret.levels[a].included # result.ret.levels[b].included
          /\ result.ret.levels[a].area < result.ret.levels[b].area

\* ------------------------------- app.py: the writers of the result stores
\* What a dcc.Store holds: nothing yet, the None a callback returned, or
\* the JSON string of a value.
HomeRangeUnset == [k |-> "unset", value |-> HomeRange("", {}, NoBatch)]
HomeRangeNone == [k |-> "none", value |-> HomeRange("", {}, NoBatch)]
ActivityUnset == [k |-> "unset", value |-> NoActivity]
ActivityNone == [k |-> "none", value |-> NoActivity]

\* process_home_range: None for an unset store. Otherwise the name
\* calculate_home_range is, at call time, the callback defined later in
\* app.py, which shadows the import from components.analysis; called with
\* the frame alone it raises TypeError, and the except clause returns None.
process_home_range(movement_data) ==
    IF movement_data = NoFrame THEN HomeRangeNone
    ELSE \* TypeError, caught
         HomeRangeNone

\* process_activity_patterns: the same with calculate_activity_patterns,
\* a callback of four parameters.
process_activity_patterns(movement_data) ==
    IF movement_data = NoFrame THEN ActivityNone
    ELSE \* TypeError, caught
         ActivityNone

Writers ==
    {"process_home_range", "calculate_home_range",
     "process_activity_patterns", "calculate_activity_patterns"}

\* Longest frame in store-movement-data when its callbacks fire.
MaxStoreRows == 1

\* store-movement-data has just been written: the four callbacks that
\* have it as Input are fired, and none has answered yet.
InitStores ==
    /\ \/ \E cols \in AppColumns : df \in FramesUpTo(cols, AppRows(cols), MaxStoreRows)
       \/ df = NoFrame
    /\ call = NoCall
    /\ result = [home_range |-> HomeRangeUnset, activity |-> ActivityUnset,
                 pending |-> Writers,
                 first_home_range |-> HomeRangeUnset,
                 first_activity |-> ActivityUnset]

\* The answer of a writer of store-home-range arrives: the store takes
\* its value; the first answer is remembered.
WriteHomeRange(fn, value) ==
    /\ fn \in result.pending
    /\ call' = [fn |-> fn]
    /\ result' = [result EXCEPT !.home_range = value,
                                !.pending = @ \ {fn},
                                !.first_home_range =
                                    IF @ = HomeRangeUnset THEN value ELSE @]
    /\ UNCHANGED df

WriteActivity(fn, value) ==
    /\ fn \in result.pending
    /\ call' = [fn |-> fn]
    /\ result' = [result EXCEPT !.activity = value,
                                !.pending = @ \ {fn},
                                !.first_activity =
                                    IF @ = ActivityUnset THEN value ELSE @]
    /\ UNCHANGED df

ProcessHomeRangeDone == WriteHomeRange("process_home_range", process_home_range(df))

CalculateHomeRangeDone ==
    \E in \in HomeRangeInputs :
        \E o \in calculate_home_range(df, in.method, in.percent_levels, 0, 0,
                                      in.selected_individuals) :
            WriteHomeRange("calculate_home_range", [k |-> "json", value |-> o.ret])

ProcessActivityDone ==
    WriteActivity("process_activity_patterns", process_activity_patterns(df))

CalculateActivityDone ==
    \E in \in ActivityInputs :
        \E o \in calculate_activity_patterns(df, in.activity_threshold, in.time_window,
                                             in.selected_individuals) :
            WriteActivity("calculate_activity_patterns", [k |-> "json", value |-> o.ret])

NextStores ==
    \/ ProcessHomeRangeDone
    \/ CalculateHomeRangeDone
    \/ ProcessActivityDone
    \/ CalculateActivityDone

SpecStores == InitStores /\ [][NextStores]_vars

\* C29: once both writers of store-home-range have answered, the store
\* holds the value it would hold had they answered in the other order,
\* which is the value of the first answer; the same for store-activity.
C29_OrderIndependent ==
    /\ ({"process_home_range", "calculate_home_range"} \cap result.pending = {})
          => result.home_range = result.first_home_range
    /\ ({"process_activity_patterns", "calculate_activity_patterns"} \cap result.pending = {})
          => result.activity = result.first_activity

\* ------------------------ components/analysis.py: core and peripheral zones
\* areas.get(key, 0) found nothing, or next(..., None) found no polygon.
NoZone ==
    [individual |-> "", method |-> "none", n |-> 0, kept |-> 0,
     bandwidth |-> NoBandwidth, percentage |-> 0]

\* next((p['polygon'] for p in range['polygons'] if p.get('individual') ==
\* individual), None). The polygons of a frame without identifier column
\* carry the individual None, which the range model writes "all".
PolygonOf(range, individual) ==
    IF \E i \in 1..Len(range.polygons) : range.polygons[i].individual = individual
    THEN range.polygons[CHOOSE i \in 1..Len(range.polygons) :
                           /\ range.polygons[i].individual = individual
                           /\ \A j \in 1..(i - 1) :
                                  range.polygons[j].individual # individual]
    ELSE NoZone

\* range['areas'].get(individual if individual else 'all', 0): the area
\* is carried as the polygon it was computed from.
AreaOf(range, individual) ==
    IF individual \in range.areas THEN PolygonOf(range, individual) ELSE NoZone

\* group[['location-lat', 'location-long']]: the fixes of one group, without
\* the identifier column.
CoordinatesOf(f, key) == RangeFrame({LAT, LONG}, [k \in {"all"} |-> f.fixes[key]])

\* The loop over the points: each point adds one to count_core when there
\* is a core polygon that contains it, else to count_peripheral when there
\* is a peripheral polygon that contains it, else to count_outside. Where
\* the points lie is not part of a range frame: every split is an outcome.
ZoneCounts(n, core_polygon, peripheral_polygon) ==
    { t \in [core : 0..n, peripheral : 0..n, outside : 0..n] :
        /\ t.core + t.peripheral + t.outside = n
        /\ core_polygon = NoZone => t.core = 0
        /\ peripheral_polygon = NoZone => t.peripheral = 0 }

\* One pass of the loop over the groups, given what the two calls of
\* calculate_home_range_kde returned.
ZoneGiven(n, individual, core_range, peripheral_range) ==
    { [core_area_km2 |-> AreaOf(core_range, individual),
       total_area_km2 |-> AreaOf(peripheral_range, individual),
       core_polygon |-> PolygonOf(core_range, individual),
       peripheral_polygon |-> PolygonOf(peripheral_range, individual),
       counts |-> counts] :
        counts \in ZoneCounts(n, PolygonOf(core_range, individual),
                              PolygonOf(peripheral_range, individual)) }

\* individual is the group key, None without identifier column ("all" in
\* the range model).
ZoneOf(f, key, core_threshold, peripheral_threshold) ==
    UNION { ZoneGiven(f.fixes[key].n, IF IND \in f.columns THEN key ELSE "all",
                      core_range.ret, peripheral_range.ret) :
        core_range \in calculate_home_range_kde(CoordinatesOf(f, key), core_threshold,
                                                NoBandwidth),
        peripheral_range \in calculate_home_range_kde(CoordinatesOf(f, key),
                                                      peripheral_threshold, NoBandwidth) }

NoZones == [k \in {} |-> NoZone]

RECURSIVE ZonesLoop(_, _, _, _, _)
ZonesLoop(f, groups, i, core_threshold, peripheral_threshold) ==
    IF i > Len(groups) THEN {NoZones}
    ELSE LET tails == ZonesLoop(f, groups, i + 1, core_threshold, peripheral_threshold)
         IN  IF f.fixes[groups[i]].n < 10 THEN tails
             ELSE { (groups[i] :> z) @@ t :
                      z \in ZoneOf(f, groups[i], core_threshold, peripheral_threshold),
                      t \in tails }

calculate_core_peripheral_zones(f, core_threshold, peripheral_threshold) ==
    IF RangeLen(f) = 0 THEN {Ok(NoZones, f)}
    ELSE { Ok(r, f) :
             r \in ZonesLoop(f, RangeGroups(f), 1, core_threshold, peripheral_threshold) }

ZoneThresholds == {<<50, 95>>, <<25, 75>>}

CallCorePeripheralZones ==
    /\ call.fn = "none" /\ IsRangeFrame(df)
    /\ \E t \in ZoneThresholds :
          /\ call' = [fn |-> "calculate_core_peripheral_zones",
                      core_threshold |-> t[1], peripheral_threshold |-> t[2]]
          /\ result' \in calculate_core_peripheral_zones(df, t[1], t[2])
    /\ df' = result'.arg

SpecZones == InitRange /\ [][CallCorePeripheralZones]_vars

\* The area calculate_home_range_kde reports for the fixes of one group at
\* a threshold: a function of the fixes, the bandwidth and the threshold.
KdeAreaOf(key, percentage) ==
    LET o == CHOOSE x \in calculate_home_range_kde(CoordinatesOf(df, key), percentage,
                                                   NoBandwidth) : TRUE
    IN  AreaOf(o.ret, "all")

SameZone(x, y) ==
    /\ x.method = y.method /\ x.n = y.n
    /\ x.bandwidth = y.bandwidth /\ x.percentage = y.percentage

\* C30: for every group of 10 fixes or more, with or without identifier
\* column, core_area_km2 and total_area_km2 are the areas
\* calculate_home_range_kde reports at the core and the peripheral
\* threshold, the fixes are classified against the polygons of those
\* areas, and the three counts add up to the number of fixes.
C30_ZonesFromKde ==
    call.fn = "calculate_core_peripheral_zones" =>
        \A key \in DOMAIN result.ret :
            LET z == result.ret[key]
            IN  /\ SameZone(z.core_area_km2, KdeAreaOf(key, call.core_threshold))
                /\ SameZone(z.total_area_km2, KdeAreaOf(key, call.peripheral_threshold))
                /\ SameZone(z.core_polygon, z.core_area_km2)
                /\ SameZone(z.peripheral_polygon, z.total_area_km2)
                /\ z.counts.core + z.counts.peripheral + z.counts.outside
                       = df.fixes[key].n
====
